---- MODULE Spec2Model ----
(***************************************************************************)
(* Verification model of the salt community extensions: the gce and vmware *)
(* cloud drivers and the pcs state module.                                 *)
(*                                                                         *)
(* Text is modelled as a sequence of tokens: a token is a separator        *)
(* (",", ":", "=", " ") or an atom of the text between separators, so that *)
(* splitting, stripping and replacing are computed, not assumed.           *)
(***************************************************************************)
EXTENDS Integers, Sequences, FiniteSets, TLC

VARIABLES
    allowIn,      \* gce._parse_allow: the allow string passed in
    allowOut      \* gce._parse_allow: what the call produced

parseVars == <<allowIn, allowOut>>

VARIABLES
    gce,          \* gce: the instance and the disks of the Google project
    gceLog,       \* gce: connections, vendor calls and events of the last function
    gceRet        \* gce: the last function, its arguments and its outcome

gceVars == <<gce, gceLog, gceRet>>

VARIABLES
    vms,          \* vmware: the virtual machines of the vCenter inventory
    vmLog,        \* vmware: vendor calls and events of the last function
    vmRet,        \* vmware: the last function, its name argument and its outcome
    vmRun         \* vmware: where destroy or create stands, and the task awaited

vmVars == <<vms, vmLog, vmRet, vmRun>>

VARIABLES
    lbHeap,       \* gce._expand_balancer: the libcloud objects and their dicts
    lbRet,        \* gce._expand_balancer: ret
    lbRun         \* gce._expand_balancer: the statement reached and its locals

lbVars == <<lbHeap, lbRet, lbRun>>

VARIABLES
    pcsCluster,   \* pcs: the items the cluster and the cached CIB file hold
    pcsLog,       \* pcs: the execution module calls of the last state
    pcsRet        \* pcs: the last state applied, its arguments and its return

pcsVars == <<pcsCluster, pcsLog, pcsRet>>

VARIABLES
    tc,     \* tencentcloud: the instances, the calls, the running create
    ports,  \* freebsdports: the stored options, the commands run
    cibFiles, \* pcs: the live CIB, the files of the cache directory
    lam,    \* boto_lambda: the account, the calls, the return
    vpc     \* boto_vpc: the account, the calls, the return

midVars == <<tc, ports, cibFiles, lam, vpc>>

VARIABLES
    cluster,  \* pcs: the nodes of the cluster, the calls, the return
    mockOpen, \* tests/support/mock: a MockOpen, its opens
    fh,       \* tests/support/mock: a MockFH, what it has handed out
    gluster,  \* glusterfs: the volumes, the calls, the return
    devs,     \* vmware._manage_devices: the devices, the request, the specs
    norm      \* gce: a vendor object and what the normalizers returned

lateVars == <<cluster, mockOpen, fh, gluster, devs, norm>>

newVars == <<midVars, lateVars>>

-----------------------------------------------------------------------------
(* Text helpers (Python str methods)                                       *)

RECURSIVE SplitFrom(_, _, _, _)
SplitFrom(s, sep, i, cur) ==
    IF i > Len(s) THEN <<cur>>
    ELSE IF s[i] = sep THEN <<cur>> \o SplitFrom(s, sep, i + 1, <<>>)
    ELSE SplitFrom(s, sep, i + 1, Append(cur, s[i]))

\* str.split(sep): always at least one field
Split(s, sep) == SplitFrom(s, sep, 1, <<>>)

RECURSIVE Join(_, _)
Join(fields, sep) ==
    IF Len(fields) = 0 THEN <<>>
    ELSE IF Len(fields) = 1 THEN fields[1]
    ELSE fields[1] \o <<sep>> \o Join(Tail(fields), sep)

LowerTok(t) == IF t = "TCP" THEN "tcp" ELSE t

\* str.lower()
Lower(s) == [i \in 1..Len(s) |-> LowerTok(s[i])]

-----------------------------------------------------------------------------
(* gce._parse_allow                                                        *)

SupportedProtocols == {<<"tcp">>, <<"udp">>, <<"icmp">>}

EmptySeen == [keys |-> <<>>, ports |-> <<>>]

SeenIndex(seen, k) ==
    IF \E i \in 1..Len(seen.keys) : seen.keys[i] = k
    THEN CHOOSE i \in 1..Len(seen.keys) : seen.keys[i] = k
    ELSE 0

\* seen_protos[k] = v : a new key is inserted last, an old key keeps its place
SeenSet(seen, k, v) ==
    IF SeenIndex(seen, k) = 0
    THEN [keys |-> Append(seen.keys, k), ports |-> Append(seen.ports, v)]
    ELSE [seen EXCEPT !.ports[SeenIndex(seen, k)] = v]

SeenGet(seen, k) == seen.ports[SeenIndex(seen, k)]

\* the body of "for p in protocols", one entry
ParseEntry(seen, pairs) ==
    IF Len(pairs) = 1 \/ Lower(pairs[1]) = <<"icmp">>
    THEN SeenSet(seen, pairs[1], <<>>)
    ELSE IF SeenIndex(seen, pairs[1]) = 0
         THEN SeenSet(seen, pairs[1], <<pairs[2]>>)
         ELSE SeenSet(seen, pairs[1], Append(SeenGet(seen, pairs[1]), pairs[2]))

\* the protocol test that guards every entry
ProtocolOkWithSctp(pairs) ==
    Lower(pairs[1]) \in SupportedProtocols \cup {<<"sctp">>}

ProtocolOk(pairs) == Lower(pairs[1]) \in SupportedProtocols

RECURSIVE ParseLoop(_, _, _)
ParseLoop(protocols, i, seen) ==
    IF i > Len(protocols) THEN [raised |-> FALSE, seen |-> seen]
    ELSE LET pairs == Split(protocols[i], ":")
         IN  IF ~ProtocolOk(pairs)
             THEN [raised |-> TRUE, seen |-> seen]
             ELSE ParseLoop(protocols, i + 1, ParseEntry(seen, pairs))

\* seen_protos after the first loop, or the SaltCloudSystemExit it raised
SeenProtos(allow) == ParseLoop(Split(allow, ","), 1, EmptySeen)

\* one element of allow_dict
AllowEntry(seen, i) ==
    IF Len(seen.ports[i]) > 0
    THEN [IPProtocol |-> seen.keys[i], ports |-> seen.ports[i]]
    ELSE [IPProtocol |-> seen.keys[i]]

\* "for k in seen_protos": the keys of a dict come in an order the
\* interpreter chooses (hash order before Python 3.7), given here as a
\* permutation of the insertion positions
DictOrders(n) ==
    {p \in [1..n -> 1..n] : \A i, j \in 1..n : i # j => p[i] # p[j]}

AllowDict(seen, order) == [i \in 1..Len(seen.keys) |-> AllowEntry(seen, order[i])]

\* _parse_allow(allow), with the order in which the dict yields its keys
ParseAllowResult(allow, order) ==
    LET r == SeenProtos(allow)
    IN  IF r.raised
        THEN [state |-> "raised"]
        ELSE [state |-> "returned", allow_dict |-> AllowDict(r.seen, order)]

-----------------------------------------------------------------------------
(* gce: lifecycle functions                                                *)

\* entries of the trace of one function call
Conn(name) == [kind |-> "conn", title |-> "", name |-> name, ok |-> TRUE]
Read(name, ok) == [kind |-> "read", title |-> "", name |-> name, ok |-> ok]
Mut(name, ok) == [kind |-> "mutate", title |-> "", name |-> name, ok |-> ok]
Ev(title, tag) == [kind |-> "event", title |-> title, name |-> tag, ok |-> TRUE]

\* salt-cloud's call argument: -f or -a
Calls == {"function", "action"}

NoAllow == <<"-">>

\* Networks, firewall rules, health checks, load balancers and snapshots
\* live in a project shared with other clients: whether one exists is
\* drawn at each call. The instance, its boot disk and the data disk are
\* followed from call to call.
GceEmpty ==
    [disk |-> FALSE, attached |-> FALSE, node |-> FALSE, bootpd |-> FALSE,
     bootdisk |-> FALSE]

NoRet == [fn |-> "none", outcome |-> "none", exc |-> "", allow |-> NoAllow,
          named |-> FALSE, inUse |-> FALSE]

\* instances provisioned earlier, with or without delete_boot_pd in their
\* profile and with or without their boot disk
GceProjects ==
    {[GceEmpty EXCEPT !.node = node, !.bootpd = node /\ bootpd, !.bootdisk = bootdisk] :
        node \in BOOLEAN, bootpd \in BOOLEAN, bootdisk \in BOOLEAN}

\* how a function ends: its outcome, its trace and the project afterwards
\* (allow and named: the allow string and whether a name came with it, for
\* create_fwrule; inUse: whether the data disk was attached at the call)
GceEndA(fn, outcome, exc, log, after, allow, named) ==
    /\ gceRet' = [fn |-> fn, outcome |-> outcome, exc |-> exc, allow |-> allow,
                   named |-> named, inUse |-> gce.disk /\ gce.attached]
    /\ gceLog' = log
    /\ gce' = after
    /\ UNCHANGED <<parseVars, vmVars, lbVars, pcsVars, newVars>>

GceEnd(fn, outcome, exc, log, after) ==
    GceEndA(fn, outcome, exc, log, after, NoAllow, FALSE)

\* fire_event(start); vendor call; fire_event(terminal): the vendor call
\* raising leaves the function before the terminal event
LifecycleEarlyEnd(title, startTag, mutName, mutOk, endTag) ==
    <<Ev(title, startTag), Ev(title, endTag), Mut(mutName, mutOk)>>

Lifecycle(title, startTag, mutName, mutOk, endTag) ==
    <<Ev(title, startTag), Mut(mutName, mutOk)>>
        \o (IF mutOk THEN <<Ev(title, endTag)>> ELSE <<>>)

\* fire_event(deleting); try: destroy(get(name)) except ResourceNotFoundError:
\* return False; fire_event(deleted)
DeleteTrace(title, getName, found, mutName, mutOk) ==
    IF ~found
    THEN <<Conn("get_conn"), Ev(title, "deleting"), Read(getName, FALSE)>>
    ELSE <<Conn("get_conn"), Ev(title, "deleting"), Read(getName, TRUE),
           Mut(mutName, mutOk)>>
             \o (IF mutOk THEN <<Ev(title, "deleted")>> ELSE <<>>)

DeleteShape(fn, call, hasName, title, getName, found, mutName, apiFail, after) ==
    IF call # "function" THEN GceEnd(fn, "raised", "SaltCloudSystemExit", <<>>, gce)
    ELSE IF ~hasName THEN GceEnd(fn, "false", "", <<>>, gce)
    ELSE IF ~found
         THEN GceEnd(fn, "false", "ResourceNotFoundError",
                     DeleteTrace(title, getName, FALSE, mutName, FALSE), gce)
    ELSE IF apiFail
         THEN GceEnd(fn, "raised", "GoogleBaseError",
                     DeleteTrace(title, getName, TRUE, mutName, FALSE), gce)
    ELSE GceEnd(fn, "returned", "",
                DeleteTrace(title, getName, TRUE, mutName, TRUE), after)

create_network ==
    \E call \in Calls, hasArgs, apiFail \in BOOLEAN :
        IF call # "function"
        THEN GceEnd("create_network", "raised", "SaltCloudSystemExit", <<>>, gce)
        ELSE IF ~hasArgs
        THEN GceEnd("create_network", "false", "", <<>>, gce)
        ELSE LET ok == ~apiFail
                 log == <<Conn("get_conn")>>
                          \o Lifecycle("create network", "creating",
                                       "ex_create_network", ok, "created")
             IN  IF ok
                 THEN GceEnd("create_network", "returned", "", log, gce)
                 ELSE GceEnd("create_network", "raised", "GoogleBaseError", log, gce)

delete_network ==
    \E call \in Calls, hasName, found, apiFail \in BOOLEAN :
        DeleteShape("delete_network", call, hasName, "delete network",
                    "ex_get_network", found, "ex_destroy_network", apiFail, gce)

\* the allow strings handed to create_fwrule
FwAllowInputs ==
    { <<"tcp", ":", "80">>, <<"icmp">>, <<"sctp", ":", "80">>,
      <<"tcp", ":", "80", ",", "sctp", ":", "80">>,
      <<"tcp", ":", "80", ",", "udp", ":", "53">> }

create_fwrule ==
    \E call \in Calls, hasName, hasAllow, apiFail \in BOOLEAN, allow \in FwAllowInputs :
        LET given == IF hasAllow THEN allow ELSE NoAllow
        IN  IF call # "function"
            THEN GceEndA("create_fwrule", "raised", "SaltCloudSystemExit", <<>>, gce,
                         given, hasName)
            ELSE IF ~hasName \/ ~hasAllow
            THEN GceEndA("create_fwrule", "false", "", <<>>, gce, given, hasName)
            ELSE IF SeenProtos(allow).raised
            THEN GceEndA("create_fwrule", "raised", "SaltCloudSystemExit", <<>>, gce,
                         allow, TRUE)
            ELSE LET ok == ~apiFail
                     log == <<Conn("get_conn")>>
                              \o Lifecycle("create firewall", "creating",
                                           "ex_create_firewall", ok, "created")
                 IN  IF ok
                     THEN GceEndA("create_fwrule", "returned", "", log, gce, allow, TRUE)
                     ELSE GceEndA("create_fwrule", "raised", "GoogleBaseError", log,
                                  gce, allow, TRUE)

delete_fwrule ==
    \E call \in Calls, hasName, found, apiFail \in BOOLEAN :
        DeleteShape("delete_fwrule", call, hasName, "delete firewall",
                    "ex_get_firewall", found, "ex_destroy_firewall", apiFail, gce)

create_hc ==
    \E call \in Calls, hasName, apiFail \in BOOLEAN :
        IF call # "function"
        THEN GceEnd("create_hc", "raised", "SaltCloudSystemExit", <<>>, gce)
        ELSE IF ~hasName
        THEN GceEnd("create_hc", "false", "", <<>>, gce)
        ELSE LET ok == ~apiFail
                 log == <<Conn("get_conn")>>
                          \o Lifecycle("create health_check", "creating",
                                       "ex_create_healthcheck", ok, "created")
             IN  IF ok
                 THEN GceEnd("create_hc", "returned", "", log, gce)
                 ELSE GceEnd("create_hc", "raised", "GoogleBaseError", log, gce)

delete_hc ==
    \E call \in Calls, hasName, found, apiFail \in BOOLEAN :
        DeleteShape("delete_hc", call, hasName, "delete health_check",
                    "ex_get_healthcheck", found, "ex_destroy_healthcheck", apiFail, gce)

create_lb ==
    \E call \in Calls, hasArgs, apiFail \in BOOLEAN :
        IF call # "function"
        THEN GceEnd("create_lb", "raised", "SaltCloudSystemExit", <<>>, gce)
        ELSE IF ~hasArgs
        THEN GceEnd("create_lb", "false", "", <<>>, gce)
        ELSE LET ok == ~apiFail
                 log == <<Conn("get_conn"), Conn("get_lb_conn")>>
                          \o Lifecycle("create load_balancer", "creating",
                                       "create_balancer", ok, "created")
             IN  IF ok
                 THEN GceEnd("create_lb", "returned", "", log, gce)
                 ELSE GceEnd("create_lb", "raised", "GoogleBaseError", log, gce)

delete_lb ==
    \E call \in Calls, hasName, found, apiFail \in BOOLEAN :
        IF call # "function"
        THEN GceEnd("delete_lb", "raised", "SaltCloudSystemExit", <<>>, gce)
        ELSE IF ~hasName THEN GceEnd("delete_lb", "false", "", <<>>, gce)
        ELSE LET pre == <<Conn("get_conn"), Conn("get_lb_conn"),
                          Ev("delete load_balancer", "deleting")>>
             IN  IF ~found
                 THEN GceEnd("delete_lb", "false", "ResourceNotFoundError",
                             Append(pre, Read("get_balancer", FALSE)), gce)
                 ELSE IF apiFail
                 THEN GceEnd("delete_lb", "raised", "GoogleBaseError",
                             pre \o <<Read("get_balancer", TRUE),
                                      Mut("destroy_balancer", FALSE)>>, gce)
                 ELSE GceEnd("delete_lb", "returned", "",
                             pre \o <<Read("get_balancer", TRUE),
                                      Mut("destroy_balancer", TRUE),
                                      Ev("delete load_balancer", "deleted")>>, gce)

attach_lb ==
    \E call \in Calls, hasArgs, found, apiFail \in BOOLEAN :
        IF call # "function"
        THEN GceEnd("attach_lb", "raised", "SaltCloudSystemExit", <<>>, gce)
        ELSE IF ~hasArgs THEN GceEnd("attach_lb", "false", "", <<>>, gce)
        ELSE IF ~gce.node
        THEN GceEnd("attach_lb", "raised", "ResourceNotFoundError",
                    <<Conn("get_conn"), Read("ex_get_node", FALSE)>>, gce)
        ELSE IF ~found
        THEN GceEnd("attach_lb", "raised", "ResourceNotFoundError",
                    <<Conn("get_conn"), Read("ex_get_node", TRUE), Conn("get_lb_conn"),
                      Read("get_balancer", FALSE)>>, gce)
        ELSE LET ok == ~apiFail
                 log == <<Conn("get_conn"), Read("ex_get_node", TRUE),
                          Conn("get_lb_conn"), Read("get_balancer", TRUE)>>
                          \o Lifecycle("attach load_balancer", "attaching",
                                       "balancer_attach_compute_node", ok, "attached")
             IN  IF ok
                 THEN GceEnd("attach_lb", "returned", "", log, gce)
                 ELSE GceEnd("attach_lb", "raised", "GoogleBaseError", log, gce)

detach_lb ==
    \E call \in Calls, hasArgs, found, isMember, apiFail \in BOOLEAN :
        IF call # "function"
        THEN GceEnd("detach_lb", "raised", "SaltCloudSystemExit", <<>>, gce)
        ELSE IF ~hasArgs THEN GceEnd("detach_lb", "false", "", <<>>, gce)
        ELSE IF ~found
        THEN GceEnd("detach_lb", "raised", "ResourceNotFoundError",
                    <<Conn("get_conn"), Conn("get_lb_conn"),
                      Read("get_balancer", FALSE)>>, gce)
        ELSE LET pre == <<Conn("get_conn"), Conn("get_lb_conn"),
                          Read("get_balancer", TRUE),
                          Read("balancer_list_members", TRUE)>>
                 ok == ~apiFail
             IN  IF ~isMember
                 THEN GceEnd("detach_lb", "false", "", pre, gce)
                 ELSE IF ok
                 THEN GceEnd("detach_lb", "returned", "",
                             pre \o Lifecycle("detach load_balancer", "detaching",
                                              "balancer_detach_member", TRUE, "detached"),
                             gce)
                 ELSE GceEnd("detach_lb", "raised", "GoogleBaseError",
                             pre \o Lifecycle("detach load_balancer", "detaching",
                                              "balancer_detach_member", FALSE, "detached"),
                             gce)

delete_snapshot ==
    \E call \in Calls, hasName, found, apiFail \in BOOLEAN :
        DeleteShape("delete_snapshot", call, hasName, "delete snapshot",
                    "ex_get_snapshot", found, "destroy_volume_snapshot", apiFail, gce)

\* the vendor's answer to destroy_volume: a disk attached to an instance is
\* refused with ResourceInUseError
VendorDestroyVolume(attached, apiFail) ==
    IF apiFail THEN "GoogleBaseError"
    ELSE IF attached THEN "ResourceInUseError"
    ELSE "ok"

\* delete_disk from the 'deleting' event on, given the vendor's answer:
\* the trace and the outcome
DeleteDiskTailSwallow(answer) ==
    [log |-> <<Ev("delete disk", "deleting"), Mut("destroy_volume", answer = "ok"),
               Ev("delete disk", "deleted")>>,
     outcome |-> IF answer = "GoogleBaseError" THEN "raised" ELSE "returned",
     exc |-> IF answer = "GoogleBaseError" THEN answer ELSE ""]

DeleteDiskTail(answer) ==
    [log |-> <<Ev("delete disk", "deleting"), Mut("destroy_volume", answer = "ok")>>
               \o (IF answer = "ok" THEN <<Ev("delete disk", "deleted")>> ELSE <<>>),
     outcome |-> IF answer = "ok" THEN "returned"
                 ELSE IF answer = "ResourceInUseError" THEN "false"
                 ELSE "raised",
     exc |-> IF answer = "ok" THEN "" ELSE answer]

delete_disk ==
    \E call \in Calls, hasName, apiFail \in BOOLEAN :
        IF call # "function"
        THEN GceEnd("delete_disk", "raised", "SaltCloudSystemExit", <<>>, gce)
        ELSE IF ~hasName THEN GceEnd("delete_disk", "false", "", <<>>, gce)
        ELSE IF ~gce.disk
        THEN GceEnd("delete_disk", "raised", "ResourceNotFoundError",
                    <<Conn("get_conn"), Read("ex_get_volume", FALSE)>>, gce)
        ELSE LET answer == VendorDestroyVolume(gce.attached, apiFail)
                 tail == DeleteDiskTail(answer)
             IN  GceEnd("delete_disk", tail.outcome, tail.exc,
                        <<Conn("get_conn"), Read("ex_get_volume", TRUE)>> \o tail.log,
                        IF answer = "ok" THEN [gce EXCEPT !.disk = FALSE] ELSE gce)

create_disk ==
    \E call \in Calls, hasArgs, zoneOk, apiFail \in BOOLEAN :
        IF call # "function"
        THEN GceEnd("create_disk", "raised", "SaltCloudSystemExit", <<>>, gce)
        ELSE IF ~hasArgs THEN GceEnd("create_disk", "false", "", <<>>, gce)
        ELSE IF ~zoneOk
        THEN GceEnd("create_disk", "raised", "ResourceNotFoundError",
                    <<Conn("get_conn"), Read("ex_get_zone", FALSE)>>, gce)
        ELSE LET ok == ~apiFail
                 log == <<Conn("get_conn"), Read("ex_get_zone", TRUE)>>
                          \o Lifecycle("create disk", "creating", "create_volume", ok,
                                       "created")
             IN  IF ok
                 THEN GceEnd("create_disk", "returned", "", log,
                             [gce EXCEPT !.disk = TRUE])
                 ELSE GceEnd("create_disk", "raised", "GoogleBaseError", log, gce)

create_snapshot ==
    \E call \in Calls, hasArgs, apiFail \in BOOLEAN :
        IF call # "function"
        THEN GceEnd("create_snapshot", "raised", "SaltCloudSystemExit", <<>>, gce)
        ELSE IF ~hasArgs
        THEN GceEnd("create_snapshot", "false", "", <<>>, gce)
        ELSE IF ~gce.disk
        THEN GceEnd("create_snapshot", "false", "ResourceNotFoundError",
                    <<Conn("get_conn"), Read("ex_get_volume", FALSE)>>, gce)
        ELSE LET ok == ~apiFail
                 log == <<Conn("get_conn"), Read("ex_get_volume", TRUE)>>
                          \o Lifecycle("create snapshot", "creating",
                                       "create_volume_snapshot", ok, "created")
             IN  IF ok
                 THEN GceEnd("create_snapshot", "returned", "", log, gce)
                 ELSE GceEnd("create_snapshot", "raised", "GoogleBaseError", log, gce)

\* the part detach_disk and attach_disk share: the two lookups, then the
\* events around the vendor call
DiskAction(fn, title, startTag, mutName, endTag, apiFail, after) ==
    IF ~gce.node
    THEN GceEnd(fn, "raised", "ResourceNotFoundError",
                <<Conn("get_conn"), Read("ex_get_node", FALSE)>>, gce)
    ELSE IF ~gce.disk
    THEN GceEnd(fn, "raised", "ResourceNotFoundError",
                <<Conn("get_conn"), Read("ex_get_node", TRUE),
                  Read("ex_get_volume", FALSE)>>, gce)
    ELSE LET ok == ~apiFail
             log == <<Conn("get_conn"), Read("ex_get_node", TRUE),
                      Read("ex_get_volume", TRUE)>>
                      \o Lifecycle(title, startTag, mutName, ok, endTag)
         IN  IF ok THEN GceEnd(fn, "returned", "", log, after)
             ELSE GceEnd(fn, "raised", "GoogleBaseError", log, gce)

detach_disk ==
    \E call \in Calls, hasArgs, apiFail \in BOOLEAN :
        IF call # "action"
        THEN GceEnd("detach_disk", "raised", "SaltCloudSystemExit", <<>>, gce)
        ELSE IF ~hasArgs THEN GceEnd("detach_disk", "false", "", <<>>, gce)
        ELSE DiskAction("detach_disk", "detach disk", "detaching", "detach_volume",
                        "detached", apiFail, [gce EXCEPT !.attached = FALSE])

attach_disk ==
    \E call \in Calls, hasArgs, modeOk, apiFail \in BOOLEAN :
        IF call # "action"
        THEN GceEnd("attach_disk", "raised", "SaltCloudSystemExit", <<>>, gce)
        ELSE IF ~hasArgs \/ ~modeOk
        THEN GceEnd("attach_disk", "false", "", <<>>, gce)
        ELSE DiskAction("attach_disk", "attach disk", "attaching", "attach_volume",
                        "attached", apiFail, [gce EXCEPT !.attached = TRUE])

DestroyDiskFailureRaises ==
    \E call \in Calls, nodeFail, diskFail \in BOOLEAN :
        IF call = "function"
        THEN GceEnd("destroy", "raised", "SaltCloudSystemExit", <<>>, gce)
        ELSE IF ~gce.node
        THEN GceEnd("destroy", "raised", "SaltCloudSystemExit",
                    <<Conn("get_conn"), Read("ex_get_node", FALSE)>>, gce)
        ELSE LET pre == <<Conn("get_conn"), Read("ex_get_node", TRUE),
                          Ev("delete instance", "deleting")>>
                 gone == [gce EXCEPT !.node = FALSE, !.bootpd = FALSE,
                                     !.attached = FALSE]
             IN  IF nodeFail
                 THEN GceEnd("destroy", "raised", "SaltCloudSystemExit",
                             Append(pre, Mut("destroy_node", FALSE)), gce)
                 ELSE IF ~gce.bootpd
                 THEN GceEnd("destroy", "returned", "",
                             pre \o <<Mut("destroy_node", TRUE),
                                      Ev("delete instance", "deleted")>>, gone)
                 ELSE LET diskOk == gce.bootdisk /\ ~diskFail
                          disk == IF gce.bootdisk
                                  THEN <<Read("ex_get_volume", TRUE),
                                         Mut("destroy_volume", diskOk)>>
                                  ELSE <<Read("ex_get_volume", FALSE)>>
                      IN  GceEnd("destroy", IF diskOk THEN "returned" ELSE "raised",
                                 IF diskOk THEN "" ELSE "SaltCloudSystemExit",
                                 pre \o <<Mut("destroy_node", TRUE),
                                          Ev("delete instance", "deleted"),
                                          Ev("delete persistent_disk", "deleting")>>
                                     \o disk
                                     \o <<Ev("delete persistent_disk", "deleted")>>,
                                 [gone EXCEPT !.bootdisk = gce.bootdisk /\ ~diskOk])


\* gce.destroy: the instance, then its boot disk when the profile kept in
\* the instance metadata sets delete_boot_pd
destroy_gce ==
    \E call \in Calls, nodeFail, diskFail \in BOOLEAN :
        IF call = "function"
        THEN GceEnd("destroy", "raised", "SaltCloudSystemExit", <<>>, gce)
        ELSE IF ~gce.node
        THEN GceEnd("destroy", "raised", "SaltCloudSystemExit",
                    <<Conn("get_conn"), Read("ex_get_node", FALSE)>>, gce)
        ELSE LET pre == <<Conn("get_conn"), Read("ex_get_node", TRUE),
                          Ev("delete instance", "deleting")>>
                 gone == [gce EXCEPT !.node = FALSE, !.bootpd = FALSE,
                                     !.attached = FALSE]
             IN  IF nodeFail
                 THEN GceEnd("destroy", "raised", "SaltCloudSystemExit",
                             Append(pre, Mut("destroy_node", FALSE)), gce)
                 ELSE IF ~gce.bootpd
                 THEN GceEnd("destroy", "returned", "",
                             pre \o <<Mut("destroy_node", TRUE),
                                      Ev("delete instance", "deleted")>>, gone)
                 ELSE LET diskOk == gce.bootdisk /\ ~diskFail
                          disk == IF gce.bootdisk
                                  THEN <<Read("ex_get_volume", TRUE),
                                         Mut("destroy_volume", diskOk)>>
                                  ELSE <<Read("ex_get_volume", FALSE)>>
                      IN  GceEnd("destroy", "returned", "",
                                 pre \o <<Mut("destroy_node", TRUE),
                                          Ev("delete instance", "deleted"),
                                          Ev("delete persistent_disk", "deleting")>>
                                     \o disk
                                     \o <<Ev("delete persistent_disk", "deleted")>>,
                                 [gone EXCEPT !.bootdisk = gce.bootdisk /\ ~diskOk])

\* an instance provisioned outside these functions (gce.create is not in
\* the claims), with or without delete_boot_pd in its profile
gce_new_instance ==
    /\ ~gce.node
    /\ \E bootpd \in BOOLEAN :
          gce' = [gce EXCEPT !.node = TRUE, !.bootpd = bootpd, !.bootdisk = TRUE]
    /\ UNCHANGED <<gceLog, gceRet, parseVars, vmVars, lbVars, pcsVars, newVars>>

NextGce ==
    \/ create_network \/ delete_network \/ create_fwrule \/ delete_fwrule
    \/ create_hc \/ delete_hc \/ create_lb \/ delete_lb \/ attach_lb \/ detach_lb
    \/ delete_snapshot \/ delete_disk \/ create_disk \/ create_snapshot
    \/ detach_disk \/ attach_disk \/ destroy_gce \/ gce_new_instance

-----------------------------------------------------------------------------
(* vmware: power operations, destroy and create                            *)

MaxVms == 2
MaxPolls == 2

VmNames == {"a", "b"}
PowerStates == {"poweredOn", "poweredOff", "suspended"}

\* vSphere lets two virtual machines in different folders carry one name
VmInventories ==
    UNION {[1..n -> [name : VmNames, power : PowerStates]] : n \in 0..MaxVms}

\* entries of the trace of one vmware function: events, vendor calls on the
\* managed object vm (seen: its probed power state) and the task state a
\* wait loop was left on
VmEv(title, tag) ==
    [kind |-> "event", title |-> title, name |-> tag, ok |-> TRUE, vm |-> 0, seen |-> ""]
VmMut(name, obj, seen, ok) ==
    [kind |-> "mutate", title |-> "", name |-> name, ok |-> ok, vm |-> obj, seen |-> seen]
VmWaited(name, obj, seen) ==
    [kind |-> "waited", title |-> "", name |-> name, ok |-> seen = "success",
     vm |-> obj, seen |-> seen]

NoVmRet == [fn |-> "none", name |-> "", outcome |-> "none", value |-> "", vm_list |-> <<>>]

IdleRun ==
    [pc |-> "idle", name |-> "", vm_list |-> <<>>, i |-> 0, task |-> "none",
     kind |-> "", obj |-> 0, polls |-> 0]

\* _get_mors_with_properties(vim.VirtualMachine, ["name",
\* "summary.runtime.powerState"]): one entry per machine of the inventory,
\* with its managed object
_get_mors_with_properties ==
    SelectSeq([i \in 1..Len(vms) |->
                  [object |-> i, name |-> vms[i].name, power |-> vms[i].power]],
              LAMBDA v : v.power # "gone")

\* _get_mor_by_property: the first managed object of that name, 0 for None
RECURSIVE FirstNamed(_, _, _)
FirstNamed(vm_list, name, i) ==
    IF i > Len(vm_list) THEN 0
    ELSE IF vm_list[i].name = name THEN vm_list[i].object
    ELSE FirstNamed(vm_list, name, i + 1)

_get_mor_by_property(name) == FirstNamed(_get_mors_with_properties, name, 1)

PowerMethod(fn) ==
    CASE fn = "start" -> "PowerOn"
      [] fn = "stop" -> "PowerOff"
      [] fn = "suspend" -> "Suspend"
      [] fn = "reset" -> "Reset"

\* the message a function returns without calling the vendor, "" when the
\* probed state lets the call go ahead
PowerRefusal(fn, power) ==
    CASE fn = "start" /\ power = "poweredOn" -> "already powered on"
      [] fn = "stop" /\ power = "poweredOff" -> "already powered off"
      [] fn = "suspend" /\ power = "poweredOff" -> "cannot suspend in powered off state"
      [] fn = "suspend" /\ power = "suspended" -> "already suspended"
      [] fn = "reset" /\ power \in {"suspended", "poweredOff"} ->
            "cannot reset in suspended/powered off state"
      [] OTHER -> ""

PowerFailed(fn) ==
    CASE fn = "start" -> "failed to power on"
      [] fn = "stop" -> "failed to power off"
      [] fn = "suspend" -> "failed to suspend"
      [] fn = "reset" -> "failed to reset"

PowerDone(fn) ==
    CASE fn = "start" -> "powered on"
      [] fn = "stop" -> "powered off"
      [] fn = "suspend" -> "suspended"
      [] fn = "reset" -> "reset"

PowerAfter(fn) ==
    CASE fn = "start" -> "poweredOn"
      [] fn = "stop" -> "poweredOff"
      [] fn = "suspend" -> "suspended"
      [] fn = "reset" -> "poweredOn"

\* for vm in vm_list: if vm["name"] == name: (refusal: return) try: vendor
\* call except: return 'failed ...'; the loop goes on after a call that
\* went through; after the loop: return the success value
RECURSIVE PowerLoop(_, _, _, _, _)
PowerLoop(fn, vm_list, name, fails, i) ==
    IF i > Len(vm_list) THEN [value |-> PowerDone(fn), log |-> <<>>]
    ELSE IF vm_list[i].name # name THEN PowerLoop(fn, vm_list, name, fails, i + 1)
    ELSE IF PowerRefusal(fn, vm_list[i].power) # ""
    THEN [value |-> PowerRefusal(fn, vm_list[i].power), log |-> <<>>]
    ELSE IF vm_list[i].object \in fails
    THEN [value |-> PowerFailed(fn),
          log |-> <<VmMut(PowerMethod(fn), vm_list[i].object, vm_list[i].power, FALSE)>>]
    ELSE LET rest == PowerLoop(fn, vm_list, name, fails, i + 1)
         IN  [value |-> rest.value,
              log |-> <<VmMut(PowerMethod(fn), vm_list[i].object, vm_list[i].power, TRUE)>>
                          \o rest.log]

\* the vendor's power calls are taken to act when they return
PowerAction(fn, name, call, fails) ==
    /\ vmRun.pc = "idle"
    /\  LET vm_list == _get_mors_with_properties
            r == PowerLoop(fn, vm_list, name, fails, 1)
        IN  IF call # "action"
            THEN /\ vmRet' = [fn |-> fn, name |-> name, outcome |-> "raised",
                              value |-> "SaltCloudSystemExit", vm_list |-> <<>>]
                 /\ vmLog' = <<>>
                 /\ vms' = vms
            ELSE /\ vmRet' = [fn |-> fn, name |-> name, outcome |-> "returned",
                              value |-> r.value, vm_list |-> vm_list]
                 /\ vmLog' = r.log
                 /\ vms' = [o \in DOMAIN vms |->
                              IF \E k \in DOMAIN r.log : r.log[k].ok /\ r.log[k].vm = o
                              THEN [vms[o] EXCEPT !.power = PowerAfter(fn)]
                              ELSE vms[o]]
    /\ UNCHANGED <<vmRun, parseVars, gceVars, lbVars, pcsVars, newVars>>

start ==
    \E name \in VmNames, call \in Calls, fails \in SUBSET (1..Len(vms)) :
        PowerAction("start", name, call, fails)

stop ==
    \E name \in VmNames, call \in Calls, fails \in SUBSET (1..Len(vms)) :
        PowerAction("stop", name, call, fails)

suspend ==
    \E name \in VmNames, call \in Calls, fails \in SUBSET (1..Len(vms)) :
        PowerAction("suspend", name, call, fails)

reset ==
    \E name \in VmNames, call \in Calls, fails \in SUBSET (1..Len(vms)) :
        PowerAction("reset", name, call, fails)

TaskPending == vmRun.task \in {"queued", "running"}

\* a function returns or raises; a task it did not wait out goes on
VmReturn(fn, name, outcome, value, log) ==
    /\ vmRet' = [fn |-> fn, name |-> name, outcome |-> outcome, value |-> value,
                 vm_list |-> vmRun.vm_list]
    /\ vmLog' = log
    /\ vmRun' = IF TaskPending
                 THEN [IdleRun EXCEPT !.task = vmRun.task, !.kind = vmRun.kind,
                                      !.obj = vmRun.obj, !.name = vmRun.name]
                 ELSE IdleRun

\* the vendor accepted a call and handed back a task
VmTask(pc, kind, obj) ==
    [vmRun EXCEPT !.pc = pc, !.task = "queued", !.kind = kind, !.obj = obj,
                  !.polls = 0]

\* destroy: fire_event(destroying); vm_list = _get_mors_with_properties(...)
destroy_vmware ==
    /\ vmRun.pc = "idle"
    /\ ~TaskPending
    /\ \E name \in VmNames :
        /\ vmRun' = [IdleRun EXCEPT !.pc = "destroy_loop", !.name = name,
                                    !.vm_list = _get_mors_with_properties, !.i = 1]
        /\ vmRet' = [fn |-> "destroy", name |-> name, outcome |-> "running",
                     value |-> "", vm_list |-> _get_mors_with_properties]
        /\ vmLog' = <<VmEv("destroying instance", "destroying")>>
    /\ UNCHANGED <<vms, parseVars, gceVars, lbVars, pcsVars, newVars>>

\* one turn of "for vm in vm_list", and what follows the loop
destroy_loop ==
    /\ vmRun.pc = "destroy_loop"
    /\ \E raises \in BOOLEAN :
        LET i == vmRun.i
            vm == vmRun.vm_list[i]
        IN  IF i > Len(vmRun.vm_list)
            THEN VmReturn("destroy", vmRun.name, "returned", "True",
                          Append(vmLog, VmEv("destroyed instance", "destroyed")))
            ELSE IF vm.name # vmRun.name
            THEN /\ vmRun' = [vmRun EXCEPT !.i = i + 1]
                 /\ UNCHANGED <<vmLog, vmRet>>
            ELSE IF vm.power # "poweredOff"
            THEN IF raises
                 THEN VmReturn("destroy", vmRun.name, "returned", "failed to destroy",
                               Append(vmLog, VmMut("PowerOff", vm.object, vm.power, FALSE)))
                 ELSE /\ vmRun' = VmTask("destroy_wait_off", "PowerOff", vm.object)
                      /\ vmLog' = Append(vmLog, VmMut("PowerOff", vm.object, vm.power, TRUE))
                      /\ UNCHANGED vmRet
            ELSE IF raises
            THEN VmReturn("destroy", vmRun.name, "raised", "Exception",
                          Append(vmLog, VmMut("Destroy_Task", vm.object, vm.power, FALSE)))
            ELSE /\ vmRun' = VmTask("destroy_wait_destroy", "Destroy_Task", vm.object)
                 /\ vmLog' = Append(vmLog, VmMut("Destroy_Task", vm.object, vm.power, TRUE))
                 /\ UNCHANGED vmRet
    /\ UNCHANGED <<vms, parseVars, gceVars, lbVars, pcsVars, newVars>>

\* while task.info.state != 'success': log.debug(...), then Destroy_Task()
destroy_wait_off ==
    /\ vmRun.pc = "destroy_wait_off"
    /\ \E raises \in BOOLEAN :
        IF vmRun.task # "success"
        THEN /\ vmRun.polls < MaxPolls
             /\ vmRun' = [vmRun EXCEPT !.polls = @ + 1]
             /\ UNCHANGED <<vmLog, vmRet>>
        ELSE LET seen == Append(vmLog, VmWaited("PowerOff", vmRun.obj, vmRun.task))
             IN  IF raises
                 THEN VmReturn("destroy", vmRun.name, "raised", "Exception",
                               Append(seen, VmMut("Destroy_Task", vmRun.obj,
                                                  "poweredOff", FALSE)))
                 ELSE /\ vmRun' = VmTask("destroy_wait_destroy", "Destroy_Task", vmRun.obj)
                      /\ vmLog' = Append(seen, VmMut("Destroy_Task", vmRun.obj,
                                                     "poweredOff", TRUE))
                      /\ UNCHANGED vmRet
    /\ UNCHANGED <<vms, parseVars, gceVars, lbVars, pcsVars, newVars>>

\* while task.info.state != 'success': log.debug(...), then the next vm
destroy_wait_destroy ==
    /\ vmRun.pc = "destroy_wait_destroy"
    /\ IF vmRun.task # "success"
       THEN /\ vmRun.polls < MaxPolls
            /\ vmRun' = [vmRun EXCEPT !.polls = @ + 1]
            /\ UNCHANGED <<vmLog, vmRet>>
       ELSE /\ vmRun' = [vmRun EXCEPT !.pc = "destroy_loop", !.i = @ + 1, !.polls = 0]
            /\ vmLog' = Append(vmLog, VmWaited("Destroy_Task", vmRun.obj, vmRun.task))
            /\ UNCHANGED vmRet
    /\ UNCHANGED <<vms, parseVars, gceVars, lbVars, pcsVars, newVars>>

\* create: fire_event(creating); the clone source is the first machine named
\* clonefrom; fire_event(requesting); Clone(); the wait loop; fire_event(created)
create_vmware ==
    /\ vmRun.pc = "idle"
    /\ ~TaskPending
    /\ Len(vms) < MaxVms
    /\ \E vm_name \in VmNames, clonefrom \in VmNames,
          hasClone, placed, isTemplate, raises \in BOOLEAN :
        LET object_ref == _get_mor_by_property(clonefrom)
            creating == <<VmEv("starting create", "creating")>>
            requesting == Append(creating, VmEv("requesting instance", "requesting"))
        IN  IF ~hasClone
            THEN VmReturn("create", vm_name, "returned", "False", creating)
            ELSE IF object_ref = 0
            THEN VmReturn("create", vm_name, "raised", "AttributeError", creating)
            ELSE IF ~placed /\ isTemplate
            THEN VmReturn("create", vm_name, "returned", "False", creating)
            ELSE IF raises
            THEN VmReturn("create", vm_name, "returned", "False",
                          Append(requesting,
                                 VmMut("Clone", object_ref, vms[object_ref].power, FALSE)))
            ELSE /\ vmRun' = [VmTask("create_wait", "Clone", object_ref)
                                 EXCEPT !.name = vm_name]
                 /\ vmLog' = Append(requesting,
                                    VmMut("Clone", object_ref, vms[object_ref].power, TRUE))
                 /\ vmRet' = [fn |-> "create", name |-> vm_name, outcome |-> "running",
                              value |-> "", vm_list |-> <<>>]
    /\ UNCHANGED <<vms, parseVars, gceVars, lbVars, pcsVars, newVars>>

\* while task.info.state == 'running': time.sleep(5); then fire_event(created)
\* and return {vm_name: True}
create_wait ==
    /\ vmRun.pc = "create_wait"
    /\ IF vmRun.task = "running"
       THEN /\ vmRun.polls < MaxPolls
            /\ vmRun' = [vmRun EXCEPT !.polls = @ + 1]
            /\ UNCHANGED <<vmLog, vmRet>>
       ELSE VmReturn("create", vmRun.name, "returned", "True",
                     vmLog \o <<VmWaited("Clone", vmRun.obj, vmRun.task),
                                VmEv("created instance", "created")>>)
    /\ UNCHANGED <<vms, parseVars, gceVars, lbVars, pcsVars, newVars>>

\* vCenter works on the task it handed back: queued, running, then success
\* or error (vim.TaskInfo.State); a task that succeeds takes effect
vm_task ==
    /\ TaskPending
    /\ \E state \in IF vmRun.task = "queued" THEN {"running", "error"}
                    ELSE {"success", "error"} :
        /\ vmRun' = [vmRun EXCEPT !.task = state]
        /\ vms' = IF state # "success" THEN vms
                  ELSE IF vmRun.kind = "PowerOff"
                  THEN [vms EXCEPT ![vmRun.obj].power = "poweredOff"]
                  ELSE IF vmRun.kind = "Destroy_Task"
                  THEN [vms EXCEPT ![vmRun.obj].power = "gone"]
                  ELSE Append(vms, [name |-> vmRun.name, power |-> "poweredOff"])
    /\ UNCHANGED <<vmLog, vmRet, parseVars, gceVars, lbVars, pcsVars, newVars>>

NextVmware ==
    \/ start \/ stop \/ suspend \/ reset
    \/ destroy_vmware \/ destroy_loop \/ destroy_wait_off \/ destroy_wait_destroy
    \/ create_vmware \/ create_wait \/ vm_task

-----------------------------------------------------------------------------
(* gce: _expand_balancer on the objects libcloud hands back                 *)

MaxItems == 2

\* Python values: a name (str), a reference to an object, a list, and a dict
\* the function built from the __dict__ of the object "of"
Obj(t, n) == [t |-> t, n |-> n]
Name(o) == [k |-> "name", of |-> o]
Ref(o) == [k |-> "ref", of |-> o]
List(s) == [k |-> "list", items |-> s]
Dict(o, fields) == [k |-> "dict", of |-> o, fields |-> fields]

Lb == Obj("lb", 0)
LbExtra == Obj("lb.extra", 0)
Fwr == Obj("forwarding_rule", 0)
Tp == Obj("targetpool", 0)
Driver == Obj("driver", 0)

LbObjects ==
    {Lb, LbExtra, Fwr, Tp, Driver, Obj("region", 1), Obj("region", 2)}
        \cup {Obj(t, n) : t \in {"healthcheck", "node", "node.extra", "zone"},
                          n \in 1..MaxItems}

Refs(t, n) == [i \in 1..n |-> Ref(Obj(t, i))]

\* a load balancer as libcloud builds it: the target pool is referenced by
\* the balancer and by its forwarding rule, the health checks by the
\* balancer and by the target pool, the region by the forwarding rule and
\* by the target pool (one object or two of one name), the zones by the
\* region and by the nodes; every object refers to the driver
LbGraph(nHc, nNodes, nZones, sameRegion, bootDisk) ==
    [o \in LbObjects |->
        CASE o.t = "lb" ->
               [name |-> Name(o), driver |-> Ref(Driver), extra |-> Ref(LbExtra)]
          [] o.t = "lb.extra" ->
               [healthchecks |-> List(Refs("healthcheck", nHc)),
                forwarding_rule |-> Ref(Fwr), targetpool |-> Ref(Tp)]
          [] o.t = "forwarding_rule" ->
               [name |-> Name(o), driver |-> Ref(Driver), targetpool |-> Ref(Tp),
                region |-> Ref(Obj("region", IF sameRegion THEN 1 ELSE 2))]
          [] o.t = "targetpool" ->
               [name |-> Name(o), driver |-> Ref(Driver),
                region |-> Ref(Obj("region", 1)),
                healthchecks |-> List(Refs("healthcheck", nHc)),
                nodes |-> List(Refs("node", nNodes))]
          [] o.t = "region" ->
               [name |-> Name(Obj("region", 1)), driver |-> Ref(Driver),
                zones |-> List(Refs("zone", nZones))]
          [] o.t = "node" ->
               [name |-> Name(o), driver |-> Ref(Driver),
                extra |-> Ref(Obj("node.extra", o.n))]
          [] o.t = "node.extra" ->
               IF bootDisk
               THEN [zone |-> Ref(Obj("zone", o.n)), boot_disk |-> Ref(Obj("disk", o.n))]
               ELSE [zone |-> Ref(Obj("zone", o.n))]
          [] OTHER -> [name |-> Name(o), driver |-> Ref(Driver)]]

LbGraphs ==
    {LbGraph(nHc, nNodes, nZones, sameRegion, bootDisk) :
        nHc \in 0..MaxItems, nNodes \in 0..MaxItems, nZones \in 0..MaxItems,
        sameRegion \in BOOLEAN, bootDisk \in BOOLEAN}

NoValue == [k |-> "none"]

LbIdle == [pc |-> "idle", i |-> 0, hc |-> <<>>, nodes |-> <<>>, zones |-> <<>>]

LbCalled == [LbIdle EXCEPT !.pc = "start"]

\* ret = {}; ret.update(item.__dict__)
_expand_item(item) == Dict(item, lbHeap[item])

\* ret.update(node.__dict__): ret['extra'] is node.extra itself, which loses
\* boot_disk and gets the zone's __dict__ in place of the zone
NodeExtraExpanded(extra) ==
    [f \in DOMAIN extra \ {"boot_disk"} |->
        IF f = "zone" THEN Dict(extra[f].of, lbHeap[extra[f].of]) ELSE extra[f]]

\* ret.update(lb.__dict__): ret['extra'] is lb.extra itself;
\* hc = ret['extra']['healthchecks']; ret['extra']['healthchecks'] = []
expand_start ==
    /\ lbRun.pc = "start"
    /\ lbRet' = Dict(Obj("ret", 0), lbHeap[Lb])
    /\ lbRun' = [lbRun EXCEPT !.pc = "healthchecks", !.i = 1,
                              !.hc = lbHeap[LbExtra].healthchecks.items]
    /\ lbHeap' = [lbHeap EXCEPT ![LbExtra].healthchecks = List(<<>>)]
    /\ UNCHANGED <<parseVars, gceVars, vmVars, pcsVars, newVars>>

\* for item in hc: ret['extra']['healthchecks'].append(_expand_item(item))
expand_healthchecks ==
    /\ lbRun.pc = "healthchecks"
    /\ IF lbRun.i <= Len(lbRun.hc)
       THEN /\ lbHeap' = [lbHeap EXCEPT ![LbExtra].healthchecks.items =
                                Append(@, _expand_item(lbRun.hc[lbRun.i].of))]
            /\ lbRun' = [lbRun EXCEPT !.i = @ + 1]
       ELSE /\ lbRun' = [lbRun EXCEPT !.pc = "forwarding_rule"]
            /\ UNCHANGED lbHeap
    /\ UNCHANGED <<lbRet, parseVars, gceVars, vmVars, pcsVars, newVars>>

\* the forwarding rule as a dict, its target pool and its region by name
ForwardingRuleFull(fwr) ==
    Dict(fwr, [lbHeap[fwr] EXCEPT
                 !.targetpool = _expand_item(lbHeap[fwr].targetpool.of),
                 !.region = _expand_item(lbHeap[fwr].region.of)])

ForwardingRule(fwr) ==
    Dict(fwr, [lbHeap[fwr] EXCEPT
                 !.targetpool = lbHeap[lbHeap[fwr].targetpool.of].name,
                 !.region = lbHeap[lbHeap[fwr].region.of].name])

expand_forwarding_rule ==
    /\ lbRun.pc = "forwarding_rule"
    /\ lbHeap' = [lbHeap EXCEPT ![LbExtra].forwarding_rule =
                        ForwardingRule(lbHeap[LbExtra].forwarding_rule.of)]
    /\ lbRun' = [lbRun EXCEPT !.pc = "targetpool"]
    /\ UNCHANGED <<lbRet, parseVars, gceVars, vmVars, pcsVars, newVars>>

\* tp, hc, nodes, region, zones are read; the target pool becomes a dict with
\* its region expanded and an empty list of nodes
expand_targetpool ==
    /\ lbRun.pc = "targetpool"
    /\ LET tp == lbHeap[LbExtra].targetpool.of
           region == lbHeap[tp].region.of
       IN  /\ lbRun' = [lbRun EXCEPT !.pc = "nodes", !.i = 1,
                                     !.hc = lbHeap[tp].healthchecks.items,
                                     !.nodes = lbHeap[tp].nodes.items,
                                     !.zones = lbHeap[region].zones.items]
           /\ lbHeap' = [lbHeap EXCEPT ![LbExtra].targetpool =
                            Dict(tp, [lbHeap[tp] EXCEPT !.region = _expand_item(region),
                                                        !.nodes = List(<<>>)])]
    /\ UNCHANGED <<lbRet, parseVars, gceVars, vmVars, pcsVars, newVars>>

\* for n in nodes: ...['nodes'].append(_expand_node(n)); then
\* ret['extra']['targetpool']['healthchecks'] = []
expand_nodes ==
    /\ lbRun.pc = "nodes"
    /\ IF lbRun.i <= Len(lbRun.nodes)
       THEN LET n == lbRun.nodes[lbRun.i].of
                extra == lbHeap[n].extra.of
            IN  /\ lbHeap' = [lbHeap EXCEPT
                                ![extra] = NodeExtraExpanded(lbHeap[extra]),
                                ![LbExtra].targetpool.fields.nodes.items =
                                    Append(@, Dict(n, lbHeap[n]))]
                /\ lbRun' = [lbRun EXCEPT !.i = @ + 1]
       ELSE /\ lbHeap' = [lbHeap EXCEPT
                            ![LbExtra].targetpool.fields.healthchecks = List(<<>>)]
            /\ lbRun' = [lbRun EXCEPT !.pc = "targetpool.healthchecks", !.i = 1]
    /\ UNCHANGED <<lbRet, parseVars, gceVars, vmVars, pcsVars, newVars>>

\* for hci in hc: ...['healthchecks'].append(hci.name); then
\* ret['extra']['targetpool']['region']['zones'] = []
expand_targetpool_healthchecks ==
    /\ lbRun.pc = "targetpool.healthchecks"
    /\ IF lbRun.i <= Len(lbRun.hc)
       THEN /\ lbHeap' = [lbHeap EXCEPT
                            ![LbExtra].targetpool.fields.healthchecks.items =
                                Append(@, lbHeap[lbRun.hc[lbRun.i].of].name)]
            /\ lbRun' = [lbRun EXCEPT !.i = @ + 1]
       ELSE /\ lbHeap' = [lbHeap EXCEPT
                            ![LbExtra].targetpool.fields.region.fields.zones = List(<<>>)]
            /\ lbRun' = [lbRun EXCEPT !.pc = "zones", !.i = 1]
    /\ UNCHANGED <<lbRet, parseVars, gceVars, vmVars, pcsVars, newVars>>

\* for z in zones: ...['region']['zones'].append(z.name); return ret
expand_zones ==
    /\ lbRun.pc = "zones"
    /\ IF lbRun.i <= Len(lbRun.zones)
       THEN /\ lbHeap' = [lbHeap EXCEPT
                            ![LbExtra].targetpool.fields.region.fields.zones.items =
                                Append(@, lbHeap[lbRun.zones[lbRun.i].of].name)]
            /\ lbRun' = [lbRun EXCEPT !.i = @ + 1]
       ELSE /\ lbRun' = [lbRun EXCEPT !.pc = "returned"]
            /\ UNCHANGED lbHeap
    /\ UNCHANGED <<lbRet, parseVars, gceVars, vmVars, pcsVars, newVars>>

_expand_balancer ==
    \/ expand_start \/ expand_healthchecks \/ expand_forwarding_rule
    \/ expand_targetpool \/ expand_nodes \/ expand_targetpool_healthchecks
    \/ expand_zones

-----------------------------------------------------------------------------
(* pcs states: _item_present and the states built on it                     *)

MaxStored == 2

PcsKeys == {"a"}
PcsIds == {"r"}
PcsValues == {<<"b">>, <<"b", ":", "c">>}

\* cibname: None for the live CIB, or the name of a cached CIB file
Cibs == {"live", "cib"}

\* str.strip()
RECURSIVE Strip(_)
Strip(s) ==
    IF s = <<>> THEN s
    ELSE IF Head(s) = " " THEN Strip(Tail(s))
    ELSE IF s[Len(s)] = " " THEN Strip(SubSeq(s, 1, Len(s) - 1))
    ELSE s

StartsWith(s, t) == Len(t) <= Len(s) /\ SubSeq(s, 1, Len(t)) = t

\* str.replace(old, ""): every occurrence of old, from the left
RECURSIVE Remove(_, _)
Remove(s, old) ==
    IF s = <<>> \/ old = <<>> THEN s
    ELSE IF StartsWith(s, old) THEN Remove(SubSeq(s, Len(old) + 1, Len(s)), old)
    ELSE <<Head(s)>> \o Remove(Tail(s), old)

\* sub in s
Contains(s, sub) ==
    \E i \in 0..(Len(s) - Len(sub)) : SubSeq(s, i + 1, i + Len(sub)) = sub

HasEquals(item_id) == \E i \in DOMAIN item_id : item_id[i] = "="

\* what the pcs command line addresses: the properties, the resource
\* defaults, the resource operation defaults, or the items of a kind
Section(item, command) ==
    IF item = "resource" /\ command = "defaults" THEN "resource defaults"
    ELSE IF item = "resource" /\ command = "op defaults" THEN "resource op defaults"
    ELSE item

\* pcs reads key=value at the first "="
PcsEntry(cib, item, create, item_id) ==
    IF HasEquals(item_id)
    THEN [cib |-> cib, section |-> Section(item, create),
          key |-> Split(item_id, "=")[1],
          value |-> SubSeq(item_id, Len(Split(item_id, "=")[1]) + 2, Len(item_id))]
    ELSE [cib |-> cib, section |-> Section(item, create), key |-> item_id,
          value |-> <<>>]

\* the line pcs prints for an entry: "key: value", or for a constraint its
\* description ending in "(id:<id>)"
PcsLine(e) ==
    IF e.section = "constraint" THEN <<"rule", " ", "(id:">> \o e.key \o <<")">>
    ELSE e.key \o <<":", " ">> \o e.value

RECURSIVE PcsLines(_)
PcsLines(entries) ==
    IF entries = {} THEN <<>>
    ELSE LET e == CHOOSE x \in entries : TRUE
         IN  <<PcsLine(e)>> \o PcsLines(entries \ {e})

\* pcs.item_show: without an id every entry of the section is printed, with
\* an id the return code tells whether the item exists
ItemShow(cib, item, show, hasId, item_id) ==
    LET entries == {e \in pcsCluster : e.cib = cib /\ e.section = Section(item, show)}
    IN  IF hasId
        THEN [retcode |-> IF \E e \in entries : e.key = item_id THEN 0 ELSE 1,
              stdout |-> <<>>]
        ELSE [retcode |-> 0, stdout |-> PcsLines(entries)]

\* pcs.item_create that went through: the entry replaces one of its key
PcsCreated(e) ==
    {x \in pcsCluster : ~(x.cib = e.cib /\ x.section = e.section /\ x.key = e.key)}
        \cup {e}

item_id_key(item_id) ==
    IF HasEquals(item_id) THEN Strip(Split(item_id, "=")[1]) ELSE item_id

item_id_value(item_id) ==
    Strip(Remove(item_id, Split(item_id, "=")[1] \o <<"=">>))

\* key,value pairs: a line of two ":"-separated fields that carries the key
\* and the value
KeyValueLine(item_id, line) ==
    /\ Len(Split(line, ":")) = 2
    /\ item_id_key(item_id) = Strip(Split(line, ":")[1])
    /\ item_id_value(item_id) = Strip(Split(line, ":")[2])

item_create_required(item, item_id, is_existing) ==
    IF HasEquals(item_id)
    THEN ~\E i \in DOMAIN is_existing.stdout : KeyValueLine(item_id, is_existing.stdout[i])
    ELSE IF item = "constraint"
    THEN ~\E i \in DOMAIN is_existing.stdout :
              Contains(is_existing.stdout[i], <<"(id:">> \o item_id \o <<")">>)
    ELSE is_existing.retcode # 0

PcsShowCall(rc) == [name |-> "pcs.item_show", retcode |-> rc]
PcsCreateCall(rc) == [name |-> "pcs.item_create", retcode |-> rc]

NoPcsRet ==
    [fn |-> "none", item_id |-> <<>>, cib |-> "", test |-> FALSE, result |-> "",
     comment |-> "", changes |-> FALSE, reported |-> FALSE, again |-> FALSE]

\* _item_present; reported: the cluster or the CIB file held the item at the
\* call; again: the application before this one had the same arguments and
\* created the item
_item_present(fn, item, item_id, show, create, cib, test, createOk) ==
    LET hasId == ~(item = "constraint" \/ HasEquals(item_id))
        is_existing == ItemShow(cib, item, show, hasId, item_id)
        entry == PcsEntry(cib, item, create, item_id)
        ret == [fn |-> fn, item_id |-> item_id, cib |-> cib, test |-> test,
                result |-> "True", comment |-> "", changes |-> FALSE,
                reported |-> entry \in pcsCluster,
                again |-> /\ pcsRet.fn = fn /\ pcsRet.item_id = item_id
                          /\ pcsRet.cib = cib /\ pcsRet.comment = "Created"]
        shown == <<PcsShowCall(is_existing.retcode)>>
    IN  IF ~item_create_required(item, item_id, is_existing)
        THEN /\ pcsRet' = [ret EXCEPT !.comment = "is already existing"]
             /\ pcsLog' = shown
             /\ UNCHANGED pcsCluster
        ELSE IF test
        THEN /\ pcsRet' = [ret EXCEPT !.result = "None", !.comment = "is set to be created"]
             /\ pcsLog' = shown
             /\ UNCHANGED pcsCluster
        ELSE IF createOk
        THEN /\ Cardinality(PcsCreated(entry)) <= MaxStored
             /\ pcsRet' = [ret EXCEPT !.comment = "Created", !.changes = TRUE]
             /\ pcsLog' = Append(shown, PcsCreateCall(0))
             /\ pcsCluster' = PcsCreated(entry)
        ELSE /\ pcsRet' = [ret EXCEPT !.result = "False", !.comment = "Failed to create"]
             /\ pcsLog' = Append(shown, PcsCreateCall(1))
             /\ UNCHANGED pcsCluster

prop_has_value ==
    /\ \E prop \in PcsKeys, value \in PcsValues, cib \in Cibs, test, createOk \in BOOLEAN :
          _item_present("prop_has_value", "property", <<prop, "=">> \o value,
                        "show", "set", cib, test, createOk)
    /\ UNCHANGED <<parseVars, gceVars, vmVars, lbVars, newVars>>

resource_defaults_to ==
    /\ \E default \in PcsKeys, value \in PcsValues, cib \in Cibs, test, createOk \in BOOLEAN :
          _item_present("resource_defaults_to", "resource", <<default, "=">> \o value,
                        "defaults", "defaults", cib, test, createOk)
    /\ UNCHANGED <<parseVars, gceVars, vmVars, lbVars, newVars>>

resource_op_defaults_to ==
    /\ \E op_default \in PcsKeys, value \in PcsValues, cib \in Cibs,
          test, createOk \in BOOLEAN :
          _item_present("resource_op_defaults_to", "resource", <<op_default, "=">> \o value,
                        "op defaults", "op defaults", cib, test, createOk)
    /\ UNCHANGED <<parseVars, gceVars, vmVars, lbVars, newVars>>

stonith_present ==
    /\ \E stonith_id \in PcsIds, cib \in Cibs, test, createOk \in BOOLEAN :
          _item_present("stonith_present", "stonith", <<stonith_id>>,
                        "show", "create", cib, test, createOk)
    /\ UNCHANGED <<parseVars, gceVars, vmVars, lbVars, newVars>>

resource_present ==
    /\ \E resource_id \in PcsIds, cib \in Cibs, test, createOk \in BOOLEAN :
          _item_present("resource_present", "resource", <<resource_id>>,
                        "show", "create", cib, test, createOk)
    /\ UNCHANGED <<parseVars, gceVars, vmVars, lbVars, newVars>>

constraint_present ==
    /\ \E constraint_id \in PcsIds, cib \in Cibs, test, createOk \in BOOLEAN :
          _item_present("constraint_present", "constraint", <<constraint_id>>,
                        "show", "None", cib, test, createOk)
    /\ UNCHANGED <<parseVars, gceVars, vmVars, lbVars, newVars>>

\* another administrator removes an item
pcs_item_removed ==
    /\ \E e \in pcsCluster : pcsCluster' = pcsCluster \ {e}
    /\ UNCHANGED <<pcsLog, pcsRet, parseVars, gceVars, vmVars, lbVars, newVars>>

NextPcs ==
    \/ prop_has_value \/ resource_defaults_to \/ resource_op_defaults_to
    \/ stonith_present \/ resource_present \/ constraint_present
    \/ pcs_item_removed

-----------------------------------------------------------------------------
(* tencentcloud: _get_node, create with its wait for an address, destroy    *)

oldVars == <<parseVars, gceVars, vmVars, lbVars, pcsVars>>

MaxTcNodes == 2

\* _get_node: attempts = 5, tried while attempts >= 0
attempts == 5

\* the wait of the profile under test
wait_for_ip_timeout == 3
wait_for_ip_interval == 1

TcNames == {"a", "b"}

\* instances by name are not unique in a TencentCloud account
TcInventories ==
    UNION {[1..n -> [name : TcNames, state : {"PENDING", "RUNNING"}, ip : BOOLEAN]] :
              n \in 0..MaxTcNodes}

TcIdleRun == [pc |-> "idle", name |-> "", elapsed |-> 0]

TcNoRet == [fn |-> "none", name |-> "", outcome |-> "none", exc |-> "", matches |-> 0,
            wait |-> ""]

TcIdle == [nodes |-> <<>>, log |-> <<>>, run |-> TcIdleRun, ret |-> TcNoRet]

TcMatches(name) == {i \in DOMAIN tc.nodes : tc.nodes[i].name = name}

\* DescribeInstances filtered by name, resp.InstanceSet[0]: the first
\* instance of that name; 0 when every attempt failed (SaltCloudNotFound)
_get_node(name, apiDown) ==
    IF apiDown \/ TcMatches(name) = {} THEN 0
    ELSE CHOOSE i \in TcMatches(name) : \A j \in TcMatches(name) : i <= j

\* the DescribeInstances calls of one _get_node
GetNodeTrace(name, apiDown) ==
    IF _get_node(name, apiDown) = 0
    THEN [k \in 1..(attempts + 1) |-> Read("DescribeInstances", FALSE)]
    ELSE <<Read("DescribeInstances", TRUE)>>

Without(s, i) == SubSeq(s, 1, i - 1) \o SubSeq(s, i + 1, Len(s))

\* destroy after the call check: fire_event(destroying), _get_node,
\* TerminateInstances, fire_event(destroyed)
TcDestroy(name, apiDown, terminateOk) ==
    LET node == _get_node(name, apiDown)
        log == <<Ev("destroying instance", "destroying")>> \o GetNodeTrace(name, apiDown)
    IN  IF node = 0
        THEN [exc |-> "SaltCloudNotFound", log |-> log, nodes |-> tc.nodes]
        ELSE IF ~terminateOk
        THEN [exc |-> "TencentCloudSDKException",
              log |-> Append(log, Mut("TerminateInstances", FALSE)), nodes |-> tc.nodes]
        ELSE [exc |-> "",
              log |-> log \o <<Mut("TerminateInstances", TRUE),
                               Ev("destroyed instance", "destroyed")>>,
              nodes |-> Without(tc.nodes, node)]

TcEnd(fn, name, outcome, exc, wait, log, nodes) ==
    tc' = [nodes |-> nodes, log |-> log, run |-> TcIdleRun,
           ret |-> [fn |-> fn, name |-> name, outcome |-> outcome, exc |-> exc,
                    matches |-> Cardinality(TcMatches(name)), wait |-> wait]]

destroy_tc ==
    /\ tc.run.pc = "idle"
    /\ \E name \in TcNames, call \in Calls, apiDown, terminateOk \in BOOLEAN :
        LET d == TcDestroy(name, apiDown, terminateOk)
        IN  IF call = "function"
            THEN TcEnd("destroy", name, "raised", "SaltCloudSystemExit", "", <<>>, tc.nodes)
            ELSE TcEnd("destroy", name, IF d.exc = "" THEN "returned" ELSE "raised",
                       d.exc, "", d.log, d.nodes)
    /\ UNCHANGED <<oldVars, ports, cibFiles, lam, vpc, lateVars>>

\* start (stop and reboot have its shape): the call check, _get_node, the
\* vendor call on node.InstanceId
start_tc ==
    /\ tc.run.pc = "idle"
    /\ \E name \in TcNames, call \in Calls, apiDown, startOk \in BOOLEAN :
        LET node == _get_node(name, apiDown)
            log == GetNodeTrace(name, apiDown)
        IN  IF call # "action"
            THEN TcEnd("start", name, "raised", "SaltCloudSystemExit", "", <<>>, tc.nodes)
            ELSE IF node = 0
            THEN TcEnd("start", name, "raised", "SaltCloudNotFound", "", log, tc.nodes)
            ELSE IF ~startOk
            THEN TcEnd("start", name, "raised", "TencentCloudSDKException", "",
                       Append(log, Mut("StartInstances", FALSE)), tc.nodes)
            ELSE TcEnd("start", name, "returned", "", "",
                       Append(log, Mut("StartInstances", TRUE)),
                       [tc.nodes EXCEPT ![node].state = "RUNNING"])
    /\ UNCHANGED <<oldVars, ports, cibFiles, lam, vpc, lateVars>>

\* create up to the wait: the profile check, fire_event(creating), the
\* request built from the profile, fire_event(requesting), RunInstances
create_tc ==
    /\ tc.run.pc = "idle"
    /\ Len(tc.nodes) < MaxTcNodes
    /\ \E name \in TcNames, configured, offered, runOk \in BOOLEAN :
        LET creating == <<Ev("starting create", "creating")>>
            requested == creating \o <<Ev("requesting instance", "requesting"),
                                       Mut("RunInstances", runOk)>>
        IN  IF ~configured
            THEN TcEnd("create", name, "false", "", "", <<>>, tc.nodes)
            ELSE IF ~offered
            THEN TcEnd("create", name, "raised", "SaltCloudNotFound", "", creating, tc.nodes)
            ELSE IF ~runOk
            THEN TcEnd("create", name, "false", "", "", requested, tc.nodes)
            ELSE tc' = [nodes |-> Append(tc.nodes, [name |-> name, state |-> "PENDING",
                                                    ip |-> FALSE]),
                        log |-> requested,
                        run |-> [pc |-> "wait", name |-> name, elapsed |-> 0],
                        ret |-> [TcNoRet EXCEPT !.fn = "create", !.name = name,
                                                !.outcome = "running"]]
    /\ UNCHANGED <<oldVars, ports, cibFiles, lam, vpc, lateVars>>

\* __query_node_data: show_instance of the first instance of that name;
\* False unless RUNNING, the data with a private address, None without
__query_node_data(name) ==
    LET node == _get_node(name, FALSE)
    IN  IF tc.nodes[node].state # "RUNNING" THEN "False"
        ELSE IF tc.nodes[node].ip THEN "data"
        ELSE "None"

\* except (SaltCloudExecutionTimeout, SaltCloudExecutionFailure): destroy(name),
\* whatever it raises, then raise SaltCloudSystemExit
TcWaitFailedQuietly(name, log, apiDown, terminateOk) ==
    TcEnd("create", name, "false", "", "timeout", log, tc.nodes)

TcWaitFailedNoCleanup(name, log, apiDown, terminateOk) ==
    TcEnd("create", name, "raised", "SaltCloudSystemExit", "timeout", log, tc.nodes)

TcWaitFailed(name, log, apiDown, terminateOk) ==
    LET d == TcDestroy(name, apiDown, terminateOk)
    IN  TcEnd("create", name, "raised", "SaltCloudSystemExit", "timeout",
              log \o d.log, d.nodes)

\* the wait gives up once the intervals slept have used the timeout up
WaitTimedOut(elapsed) == elapsed >= wait_for_ip_timeout

\* one turn of the wait: a probe, then the data, or the interval slept, or
\* the timeout once the interval has used it up; with the data:
\* cloud.bootstrap, fire_event(created), return
wait_for_ip ==
    /\ tc.run.pc = "wait"
    /\ \E apiDown, terminateOk \in BOOLEAN :
        LET name == tc.run.name
            log == Append(tc.log, Read("__query_node_data", TRUE))
            elapsed == tc.run.elapsed + wait_for_ip_interval
        IN  IF __query_node_data(name) = "data"
            THEN TcEnd("create", name, "returned", "", "data",
                       Append(log, Ev("created instance", "created")), tc.nodes)
            ELSE IF WaitTimedOut(elapsed)
            THEN TcWaitFailed(name, log, apiDown, terminateOk)
            ELSE tc' = [tc EXCEPT !.log = log, !.run.elapsed = elapsed]
    /\ UNCHANGED <<oldVars, ports, cibFiles, lam, vpc, lateVars>>

\* the instances boot and get their address on the vendor's side
tc_boot ==
    /\ \E i \in DOMAIN tc.nodes :
          \/ /\ tc.nodes[i].state = "PENDING"
             /\ tc' = [tc EXCEPT !.nodes[i].state = "RUNNING"]
          \/ /\ ~tc.nodes[i].ip
             /\ tc' = [tc EXCEPT !.nodes[i].ip = TRUE]
    /\ UNCHANGED <<oldVars, ports, cibFiles, lam, vpc, lateVars>>

NextTc == destroy_tc \/ start_tc \/ create_tc \/ wait_for_ip \/ tc_boot

-----------------------------------------------------------------------------
(* freebsdports: config of one port, with showconfig, rmconfig and the      *)
(* options file                                                             *)

MaxKwargs == 2

\* the options 'make showconfig' lists for the port, all on by default
PortOpts == {"IPV6", "SSL"}

OnOff == {"on", "off"}

PortDefaults == [o \in PortOpts |-> "on"]

\* keyword arguments: names of options, of no option, and salt's own
\* underscore names; values as YAML hands them over
KwNames == PortOpts \cup {"NLS", "__pub_fun"}

KwValues == {[bool |-> TRUE], [bool |-> FALSE], [str |-> "on"], [str |-> "OFF"],
             [str |-> "yes"]}

KwInputs ==
    UNION {[ns -> KwValues] : ns \in {s \in SUBSET KwNames : Cardinality(s) <= MaxKwargs}}

LowerValue(s) == IF s = "OFF" THEN "off" ELSE s

_on_off(val) ==
    IF "bool" \in DOMAIN val THEN (IF val.bool THEN "on" ELSE "off")
    ELSE LowerValue(val.str)

PortsNoRet == [fn |-> "none", reset |-> FALSE, opts |-> <<>>, shown |-> "",
               outcome |-> "none",
               exc |-> "", before |-> [set |-> FALSE, vals |-> PortDefaults]]

PortsIdle == [stored |-> [set |-> FALSE, vals |-> PortDefaults], log |-> <<>>,
              ret |-> PortsNoRet]

\* make showconfig: the options file when there is one, else the defaults
showconfig(stored) == IF stored.set THEN stored.vals ELSE PortDefaults

\* make rmconfig
rmconfig(stored) == [set |-> FALSE, vals |-> PortDefaults]

\* the options file written anew from the whole configuration
_write_options(configuration) == [set |-> TRUE, vals |-> configuration]

PortsEnd(fn, doReset, opts, shown, outcome, exc, stored, log) ==
    ports' = [stored |-> stored, log |-> log,
              ret |-> [fn |-> fn, reset |-> doReset, opts |-> opts, shown |-> shown,
                       outcome |-> outcome,
                       exc |-> exc, before |-> ports.stored]]

\* config(name, reset, **kwargs)
config ==
    \E nameOk, doReset \in BOOLEAN, kwargs \in KwInputs,
       shown, shownAfter \in {"ok", "error", "empty"} :
        LET cleared == IF doReset THEN rmconfig(ports.stored) ELSE ports.stored
            resetLog == IF doReset THEN <<"make rmconfig">> ELSE <<>>
            showLog == Append(resetLog, "make showconfig")
            configuration == showconfig(cleared)
            names == {x \in DOMAIN kwargs : x # "__pub_fun"}
            opts == [x \in names |-> _on_off(kwargs[x])]
            bad_opts == {x \in names : x \notin DOMAIN configuration}
            bad_vals == {x \in names : opts[x] \notin OnOff}
            merged == [o \in PortOpts |-> IF o \in names THEN opts[o] ELSE configuration[o]]
            writeLog == showLog \o <<"write options", "make showconfig">>
            End(outcome, exc, stored, log) ==
                PortsEnd("config", doReset, opts, IF nameOk THEN shown ELSE "", outcome, exc,
                         stored, log)
        IN  /\ ports.ret.fn = "none"
            /\ IF ~nameOk
               THEN End("raised", "SaltInvocationError", ports.stored, <<>>)
               ELSE IF shown = "error"
               THEN End("raised", "SaltInvocationError", cleared, showLog)
               ELSE IF shown = "empty"
               THEN End("raised", "CommandExecutionError", cleared, showLog)
               ELSE IF bad_opts # {}
               THEN End("raised", "SaltInvocationError", cleared, showLog)
               ELSE IF bad_vals # {}
               THEN End("raised", "SaltInvocationError", cleared, showLog)
               ELSE IF shownAfter = "error"
               THEN End("raised", "SaltInvocationError", _write_options(merged), writeLog)
               ELSE IF shownAfter = "empty"
               THEN End("returned", "False", _write_options(merged), writeLog)
               ELSE End("returned", "True", _write_options(merged), writeLog)
            /\ UNCHANGED <<oldVars, tc, cibFiles, lam, vpc, lateVars>>

-----------------------------------------------------------------------------
(* pcs: cib_present and cib_pushed over the files of one cibname            *)

MaxDocs == 2

\* the CIB documents there are; 0 stands for a file that does not exist
CibDocs == 1..MaxDocs

\* file.get_hash with form sha256, prefixed as "sha256:<digest>"
get_hash(doc) == [form |-> "sha256", digest |-> doc]

\* _file_read of a file that does not exist
NoFile == [form |-> "", digest |-> 0]

\* what a checksum file can hold: a prefixed hash, a bare digest
Cksums == {get_hash(d) : d \in CibDocs} \cup {[form |-> "", digest |-> d] : d \in CibDocs}

CheckHashAny(doc, file_hash) == TRUE

\* file.check_hash
check_hash(doc, file_hash) == doc # 0 /\ get_hash(doc) = file_hash

CibNoRet == [fn |-> "none", test |-> FALSE, result |-> "", pushed |-> FALSE,
             hash_live |-> NoFile, before |-> [cibfile |-> 0, cksum |-> NoFile]]

CibIdle == [live |-> 1, cibfile |-> 0, tmp |-> 0, cksum |-> NoFile, ret |-> CibNoRet]

CibReturn(fn, test, result, pushed, hash_live) ==
    [fn |-> fn, test |-> test, result |-> result, pushed |-> pushed,
     hash_live |-> hash_live,
     before |-> [cibfile |-> cibFiles.cibfile, cksum |-> cibFiles.cksum]]

\* cib_present(name, cibname): the whole function
cib_present ==
    /\ \E test, made, moveOk, writeOk \in BOOLEAN, retcode \in {0, 1} :
        LET created == IF made THEN cibFiles.live ELSE 0
            cib_hash_live == get_hash(created)
            cib_cksum_required == cibFiles.cksum # cib_hash_live
            cib_create_required == ~check_hash(cibFiles.cibfile, cib_hash_live)
            moved == IF cib_create_required /\ moveOk THEN created ELSE cibFiles.cibfile
            written == IF ~cib_cksum_required THEN cibFiles.cksum
                       ELSE IF writeOk THEN cib_hash_live
                       ELSE NoFile
            ok == /\ cib_create_required => check_hash(moved, cib_hash_live)
                  /\ cib_cksum_required => written = cib_hash_live
            Ret(result) == CibReturn("cib_present", test, result, FALSE, cib_hash_live)
        IN  IF retcode # 0 \/ created = 0
            THEN cibFiles' = [cibFiles EXCEPT !.tmp = created, !.ret = Ret("False")]
            ELSE IF ~cib_create_required /\ ~cib_cksum_required
            THEN cibFiles' = [cibFiles EXCEPT !.tmp = 0, !.ret = Ret("True")]
            ELSE IF test
            THEN cibFiles' = [cibFiles EXCEPT !.tmp = 0, !.ret = Ret("None")]
            ELSE cibFiles' = [cibFiles EXCEPT
                                 !.tmp = IF cib_create_required /\ ~moveOk THEN created
                                         ELSE 0,
                                 !.cibfile = moved,
                                 !.cksum = written,
                                 !.ret = Ret(IF ok THEN "True" ELSE "False")]
    /\ UNCHANGED <<oldVars, tc, ports, lam, vpc, lateVars>>

PushAlways(cibfile, cksum) == TRUE

\* cib_pushed: the checksum file does not hold the hash of the cibfile
cib_push_required(cibfile, cksum) == cksum # get_hash(cibfile)

\* cib_pushed(name, cibname): the whole function; a push that succeeds
\* makes the cibfile the live CIB
cib_pushed ==
    /\ \E test \in BOOLEAN, retcode \in {0, 1} :
        LET Ret(result, pushed) == CibReturn("cib_pushed", test, result, pushed, NoFile)
        IN  IF cibFiles.cibfile = 0
            THEN cibFiles' = [cibFiles EXCEPT !.ret = Ret("False", FALSE)]
            ELSE IF ~cib_push_required(cibFiles.cibfile, cibFiles.cksum)
            THEN cibFiles' = [cibFiles EXCEPT !.ret = Ret("True", FALSE)]
            ELSE IF test
            THEN cibFiles' = [cibFiles EXCEPT !.ret = Ret("None", FALSE)]
            ELSE IF retcode = 0
            THEN cibFiles' = [cibFiles EXCEPT !.live = cibFiles.cibfile,
                                              !.ret = Ret("True", TRUE)]
            ELSE cibFiles' = [cibFiles EXCEPT !.ret = Ret("False", TRUE)]
    /\ UNCHANGED <<oldVars, tc, ports, lam, vpc, lateVars>>

\* a state given the cibname changes the cibfile (pcs -f cibfile ...)
cib_edit ==
    /\ cibFiles.cibfile # 0
    /\ \E doc \in CibDocs \ {cibFiles.cibfile} :
          cibFiles' = [cibFiles EXCEPT !.cibfile = doc,
                                       !.ret = CibReturn("edit", FALSE, "True", FALSE, NoFile)]
    /\ UNCHANGED <<oldVars, tc, ports, lam, vpc, lateVars>>

\* the cluster changes its live CIB, or someone the checksum file
cib_drift ==
    /\ \E doc \in CibDocs, cksum \in Cksums \cup {cibFiles.cksum} :
          /\ doc # cibFiles.live \/ cksum # cibFiles.cksum
          /\ cibFiles' = [cibFiles EXCEPT !.live = doc, !.cksum = cksum,
                                          !.ret = CibReturn("drift", FALSE, "True", FALSE,
                                                            NoFile)]
    /\ UNCHANGED <<oldVars, tc, ports, lam, vpc, lateVars>>

NextCib == cib_present \/ cib_pushed \/ cib_edit \/ cib_drift

-----------------------------------------------------------------------------
(* boto_lambda: the update functions and the paged listing of functions     *)

MaxFunctions == 2

\* the most items the API puts on one page of a listing
PageSize == 1

LambdaNames == {"f", "g"}

\* the functions of the account, in the order the API lists them
LambdaAccounts ==
    {fs \in UNION {[1..n -> LambdaNames] : n \in 0..MaxFunctions} :
        \A i, j \in DOMAIN fs : i # j => fs[i] # fs[j]}

\* what the API does with an update: a description, nothing, ClientError
ApiOutcomes == {"description", "empty", "ClientError"}

LamNoRet == [fn |-> "none", name |-> "", keys |-> {}, updated |-> "", raised |-> "",
             items |-> <<>>, found |-> ""]

LamIdle == [functions |-> <<>>, log |-> <<>>, ret |-> LamNoRet]

LamReturn(fn, name, keys, updated, raised, log) ==
    lam' = [lam EXCEPT !.log = log,
                       !.ret = [LamNoRet EXCEPT !.fn = fn, !.name = name, !.keys = keys,
                                                !.updated = updated, !.raised = raised]]

\* the tail the three update functions share: the description with
\* 'updated': True, {'updated': False} for nothing, and the except clause
UpdateReturn(fn, name, described, api) ==
    IF api = "description"
    THEN LamReturn(fn, name, {"updated", described}, "True", "", <<fn>>)
    ELSE IF api = "empty"
    THEN LamReturn(fn, name, {"updated"}, "False", "", <<fn>>)
    ELSE LamReturn(fn, name, {"created", "error"}, "", "", <<fn>>)

update_function_code ==
    /\ \E FunctionName \in LambdaNames, ZipFile, S3Bucket \in BOOLEAN, api \in ApiOutcomes :
        IF ZipFile /\ S3Bucket
        THEN LamReturn("update_function_code", FunctionName, {}, "",
                       "SaltInvocationError", <<>>)
        ELSE UpdateReturn("update_function_code", FunctionName, "function", api)
    /\ UNCHANGED <<oldVars, tc, ports, cibFiles, vpc, lateVars>>

update_alias ==
    /\ \E FunctionName \in LambdaNames, api \in ApiOutcomes :
        UpdateReturn("update_alias", FunctionName, "alias", api)
    /\ UNCHANGED <<oldVars, tc, ports, cibFiles, vpc, lateVars>>

update_event_source_mapping ==
    /\ \E FunctionName \in LambdaNames, api \in ApiOutcomes :
        UpdateReturn("update_event_source_mapping", FunctionName,
                     "event_source_mapping", api)
    /\ UNCHANGED <<oldVars, tc, ports, cibFiles, vpc, lateVars>>

\* conn.list_functions(Marker=marker): a dict with the page under
\* 'Functions', and 'NextMarker' when the listing goes on
list_functions(marker) ==
    LET last == IF marker + PageSize < Len(lam.functions) THEN marker + PageSize
                ELSE Len(lam.functions)
        page == [Functions |-> SubSeq(lam.functions, marker + 1, last)]
    IN  IF last < Len(lam.functions)
        THEN [k \in {"Functions", "NextMarker"} |->
                 IF k = "Functions" THEN page.Functions ELSE <<last>>]
        ELSE page

\* getattr(ret, name, None) of a dict: its keys are no attributes
getattr(ret, name) == <<>>

RECURSIVE MultiCallLoop(_, _, _)
\* while marker: more = function(Marker=marker); ret[content].extend(more[content]);
\* marker = getattr(ret, 'NextMarker', None)
MultiCallLoop(ret, content, marker) ==
    IF marker = <<>> THEN ret
    ELSE LET more == list_functions(marker[1])
             extended == [ret EXCEPT ![content] = @ \o more[content]]
         IN  MultiCallLoop(extended, content, getattr(extended, "NextMarker"))

\* _multi_call(conn.list_functions)
_multi_call ==
    LET ret == list_functions(0)
        content == CHOOSE k \in DOMAIN ret : k # "NextMarker"
    IN  MultiCallLoop(ret, content, getattr(ret, "NextMarker"))

\* _find_function(name): the first function of that name in the listing
_find_function ==
    /\ \E name \in LambdaNames :
        LET funcs == _multi_call.Functions
        IN  lam' = [lam EXCEPT
                       !.log = <<"list_functions">>,
                       !.ret = [LamNoRet EXCEPT
                                   !.fn = "_find_function", !.name = name, !.items = funcs,
                                   !.found = IF \E i \in DOMAIN funcs : funcs[i] = name
                                             THEN name ELSE "None"]]
    /\ UNCHANGED <<oldVars, tc, ports, cibFiles, vpc, lateVars>>

\* functions come and go in the account
lambda_account ==
    /\ \E fs \in LambdaAccounts :
          /\ fs # lam.functions
          /\ lam' = [lam EXCEPT !.functions = fs]
    /\ UNCHANGED <<oldVars, tc, ports, cibFiles, vpc, lateVars>>

NextLambda ==
    \/ update_function_code \/ update_alias \/ update_event_source_mapping
    \/ _find_function \/ lambda_account

-----------------------------------------------------------------------------
(* boto_vpc: create                                                        *)

MaxVpcs == 2

CidrBlocks == {"10.0.0.0/24", "10.0.1.0/24"}

VpcNoRet == [fn |-> "none", value |-> "", created |-> FALSE]

VpcIdle == [vpcs |-> <<>>, log |-> <<>>, ret |-> VpcNoRet]

\* _maybe_set_name_tag, then _maybe_set_tags unless add_tag raised: the
\* calls made, what the VPC carries after them, whether one of them raised
MaybeSetTags(vpc_name, tags, nameOk, tagsOk) ==
    LET named == vpc_name /\ nameOk
        reached == ~vpc_name \/ nameOk
        tagged == reached /\ tags /\ tagsOk
    IN  [log |-> (IF vpc_name THEN <<"add_tag">> ELSE <<>>)
                    \o (IF reached /\ tags THEN <<"add_tags">> ELSE <<>>),
         named |-> named, tagged |-> tagged,
         raised |-> (vpc_name /\ ~nameOk) \/ (reached /\ tags /\ ~tagsOk)]

\* create(cidr_block, vpc_name, tags)
create_vpc ==
    /\ Len(vpc.vpcs) < MaxVpcs
    /\ \E cidr_block \in CidrBlocks, conn, vpc_name, tags, nameOk, tagsOk \in BOOLEAN,
          api \in {"vpc", "nothing", "BotoServerError"} :
        LET t == MaybeSetTags(vpc_name, tags, nameOk, tagsOk)
            made == [cidr |-> cidr_block, named |-> t.named, tagged |-> t.tagged]
            Ret(value, created) == [fn |-> "create", value |-> value, created |-> created]
        IN  IF ~conn
            THEN vpc' = [vpc EXCEPT !.log = <<>>, !.ret = Ret("False", FALSE)]
            ELSE IF api = "BotoServerError"
            THEN vpc' = [vpc EXCEPT !.log = <<"create_vpc">>, !.ret = Ret("False", FALSE)]
            ELSE IF api = "nothing"
            THEN vpc' = [vpc EXCEPT !.log = <<"create_vpc">>, !.ret = Ret("None", FALSE)]
            ELSE vpc' = [vpcs |-> Append(vpc.vpcs, made),
                         log |-> <<"create_vpc">> \o t.log,
                         ret |-> Ret(IF t.raised THEN "False" ELSE "True", TRUE)]
    /\ UNCHANGED <<oldVars, tc, ports, cibFiles, lam, lateVars>>

-----------------------------------------------------------------------------
(* pcs: auth, cluster_setup and cluster_node_present                        *)

MaxClusterNodes == 2

ClusterNodes == 1..MaxClusterNodes

ClusterNames == {"", "pcscluster"}

ClusterNoRet == [fn |-> "none", nodes |-> {}, test |-> FALSE, result |-> "",
                 changes |-> {}, before |-> {}]

ClusterIdle == [authorized |-> {}, name |-> "", members |-> {}, log |-> <<>>,
                ret |-> ClusterNoRet]

\* a line of 'pcs cluster auth' for a node: nodes authorized before are not
\* authorized again unless --force is given
AuthLine(node, authorized, reachable, force) ==
    IF node \in authorized /\ ~force THEN "Already authorized"
    ELSE IF node \in reachable THEN "Authorized"
    ELSE "Error"

\* pcs.is_auth: 'pcs cluster auth' with no credentials to give
is_auth(nodes, authorized) == [n \in nodes |-> AuthLine(n, authorized, {}, FALSE)]

AuthorizedAny(state) == state = "Authorized" \/ state = "Already authorized"

\* the second loop of auth: the nodes pcs.auth has to report for the result
\* to stay True
AuthorizedNow(state) == state = "Authorized"

\* auth after the node list: pcs.is_auth, the first loop, and outside test
\* mode pcs.auth and the second loop
AuthRun(nodes, test, reachable, force) ==
    LET authorized_dict == is_auth(nodes, cluster.authorized)
        auth_required == \E n \in nodes : ~AuthorizedAny(authorized_dict[n])
        authorize_dict == [n \in nodes |-> AuthLine(n, cluster.authorized, reachable, force)]
        done == {n \in nodes : AuthorizedNow(authorize_dict[n])}
    IN  IF ~auth_required
        THEN [result |-> "True", changes |-> {}, log |-> <<"pcs.is_auth">>,
              authorized |-> cluster.authorized]
        ELSE IF test
        THEN [result |-> "None", changes |-> {}, log |-> <<"pcs.is_auth">>,
              authorized |-> cluster.authorized]
        ELSE [result |-> IF done = nodes THEN "True" ELSE "False",
              changes |-> done, log |-> <<"pcs.is_auth", "pcs.auth">>,
              authorized |-> cluster.authorized
                                \cup {n \in nodes : authorize_dict[n] = "Authorized"}]

ClusterReturn(fn, nodes, test, result, changes) ==
    [fn |-> fn, nodes |-> nodes, test |-> test, result |-> result, changes |-> changes,
     before |-> cluster.authorized]

auth ==
    /\ \E nodes \in SUBSET ClusterNodes \ {{}}, test, force \in BOOLEAN,
          reachable \in SUBSET ClusterNodes :
        LET a == AuthRun(nodes, test, reachable, force)
        IN  cluster' = [cluster EXCEPT
                           !.authorized = a.authorized, !.log = a.log,
                           !.ret = ClusterReturn("auth", nodes, test, a.result, a.changes)]
    /\ UNCHANGED <<oldVars, midVars, mockOpen, fh, gluster, devs, norm>>

\* cluster_setup: pcs.config_show, and when the cluster is not the one named:
\* on Debian with wipe_default the default cluster removed and auth run,
\* then pcs.cluster_setup
cluster_setup ==
    /\ \E nodes \in SUBSET ClusterNodes \ {{}}, test, wipe \in BOOLEAN,
          reachable, set_up \in SUBSET ClusterNodes :
        LET pcsclustername == "pcscluster"
            setup_required == cluster.name # pcsclustername
            a == AuthRun(nodes, FALSE, reachable, FALSE)
            wiped == IF wipe THEN <<"file.remove", "file.remove", "service.stop">> \o a.log
                     ELSE <<>>
            done == nodes \cap set_up
            Ret(result, changes) == ClusterReturn("cluster_setup", nodes, test, result,
                                                  changes)
        IN  IF ~setup_required
            THEN cluster' = [cluster EXCEPT !.log = <<"pcs.config_show">>,
                                            !.ret = Ret("True", {})]
            ELSE IF test
            THEN cluster' = [cluster EXCEPT !.log = <<"pcs.config_show">>,
                                            !.ret = Ret("None", {})]
            ELSE cluster' = [cluster EXCEPT
                                !.authorized = IF wipe THEN a.authorized ELSE @,
                                !.name = IF done = nodes THEN pcsclustername ELSE @,
                                !.members = IF done = nodes THEN nodes ELSE @,
                                !.log = <<"pcs.config_show">> \o wiped
                                            \o <<"pcs.cluster_setup">>,
                                !.ret = Ret(IF done = nodes THEN "True" ELSE "False", done)]
    /\ UNCHANGED <<oldVars, midVars, mockOpen, fh, gluster, devs, norm>>

\* cluster_node_present: 'pcs status nodes corosync', and for a node that is
\* no member pcs.cluster_node_add, which has to succeed on the node and to
\* update corosync on every member
cluster_node_present ==
    /\ \E node \in ClusterNodes, test, added \in BOOLEAN, updated \in SUBSET ClusterNodes :
        LET current_nodes == cluster.members
            ok == added /\ current_nodes \subseteq updated
            Ret(result, changes) == ClusterReturn("cluster_node_present", {node}, test,
                                                  result, changes)
        IN  IF node \in cluster.members
            THEN cluster' = [cluster EXCEPT !.log = <<"cmd.run_all">>,
                                            !.ret = Ret("True", {})]
            ELSE IF test
            THEN cluster' = [cluster EXCEPT !.log = <<"cmd.run_all">>,
                                            !.ret = Ret("None", {})]
            ELSE cluster' = [cluster EXCEPT
                                !.members = IF added THEN @ \cup {node} ELSE @,
                                !.log = <<"cmd.run_all", "pcs.cluster_node_add">>,
                                !.ret = Ret(IF ok THEN "True" ELSE "False",
                                            IF added THEN {node} ELSE {})]
    /\ UNCHANGED <<oldVars, midVars, mockOpen, fh, gluster, devs, norm>>

NextCluster == auth \/ cluster_setup \/ cluster_node_present

-----------------------------------------------------------------------------
(* tests.support.mock: MockOpen                                              *)

MaxPatterns == 2
MaxList == 2
MaxOpens == 4

\* file names as directory and base name; a pattern has "*" for the base
\* name or is "*" alone
MockPaths == {<<"/etc/", "foo.conf">>, <<"/etc/", "bar.conf">>, <<"/tmp/", "x">>}

MockPatterns == {<<"/etc/", "foo.conf">>, <<"/etc/", "*">>, <<"*">>}

\* fnmatch.fnmatch(name, pat)
fnmatch(name, pat) ==
    \/ pat = <<"*">>
    \/ Len(pat) = 2 /\ pat[1] = name[1] /\ (pat[2] = "*" \/ pat[2] = name[2])

\* what a pattern maps to: file contents or an exception, or a list of them
MockContents == {"before", "after", "IOError"}

IsException(c) == c = "IOError"

MockValues ==
    [list : {FALSE}, items : {<<c>> : c \in MockContents}]
        \cup [list : {TRUE},
              items : UNION {[1..n -> MockContents] : n \in 0..MaxList}]

\* read_data in the iteration order of the dict: patterns with their values
MockReadData ==
    {d \in UNION {[1..n -> [pat : MockPatterns, val : MockValues]] : n \in 1..MaxPatterns} :
        \A i, j \in DOMAIN d : d[i].pat = d[j].pat => i = j}

MockNoRet == [name |-> <<>>, pat |-> <<>>, outcome |-> "none", exc |-> "", contents |-> ""]

MockOpenIdle == [read_data |-> <<>>, given |-> <<>>, opens |-> <<>>, call_count |-> 0,
                 ret |-> MockNoRet]

\* for pat in self.read_data: the first pattern other than '*' that matches,
\* else '*'
matched_pattern(read_data, name) ==
    LET hits == {i \in DOMAIN read_data :
                    read_data[i].pat # <<"*">> /\ fnmatch(name, read_data[i].pat)}
    IN  IF hits = {} THEN <<"*">>
        ELSE read_data[CHOOSE i \in hits : \A j \in hits : i <= j].pat

PopLast(items) == [file_contents |-> items[Len(items)], rest |-> SubSeq(items, 1, Len(items) - 1)]

\* matched_contents.pop(0)
PopFirst(items) == [file_contents |-> items[1], rest |-> Tail(items)]

\* MockOpen.__call__(name); opens: the patterns the opens so far fell to
MockOpenCall ==
    /\ mockOpen.call_count < MaxOpens
    /\ \E name \in MockPaths :
        LET read_data == mockOpen.read_data
            pat == matched_pattern(read_data, name)
            at == {i \in DOMAIN read_data : read_data[i].pat = pat}
            i == CHOOSE i \in at : TRUE
            matched_contents == read_data[i].val
            popped == PopFirst(matched_contents.items)
            file_contents == popped.file_contents
            Raised(exc) == [name |-> name, pat |-> pat, outcome |-> "raised", exc |-> exc,
                            contents |-> ""]
            counted == [mockOpen EXCEPT !.call_count = @ + 1, !.opens = Append(@, pat)]
        IN  IF at = {}
            THEN mockOpen' = [counted EXCEPT !.ret = Raised("IOError(ENOENT)")]
            ELSE IF matched_contents.list /\ matched_contents.items = <<>>
            THEN mockOpen' = [counted EXCEPT !.ret = Raised("RuntimeError")]
            ELSE mockOpen' = [counted EXCEPT
                    !.read_data[i].val.items = IF matched_contents.list THEN popped.rest
                                               ELSE @,
                    !.ret = IF IsException(file_contents) THEN Raised(file_contents)
                            ELSE [name |-> name, pat |-> pat, outcome |-> "filehandle",
                                  exc |-> "", contents |-> file_contents]]
    /\ UNCHANGED <<oldVars, midVars, cluster, fh, gluster, devs, norm>>

NextMockOpen == MockOpenCall

-----------------------------------------------------------------------------
(* tests.support.mock: MockFH over its read_data                             *)

MaxData == 4

\* file contents: characters and newlines
FhData == UNION {[1..n -> {"a", "\n"}] : n \in 0..MaxData}

\* empty_string.join(lines)
RECURSIVE joined(_)
joined(lines) == IF lines = <<>> THEN <<>> ELSE lines[1] \o joined(Tail(lines))

\* _iterate_read_data: the lines of read_data, each with its newline; the
\* entry the split leaves after a final newline is dropped, and a last line
\* without newline loses the one added
_iterate_read_data(read_data) ==
    LET fields == Split(read_data, "\n")
        n == Len(fields)
    IN  IF Append(fields[n], "\n") = <<"\n">>
        THEN [i \in 1..(n - 1) |-> Append(fields[i], "\n")]
        ELSE [i \in 1..n |-> IF i = n THEN fields[i] ELSE Append(fields[i], "\n")]

FhNoRet == [op |-> "none", data |-> <<>>, at_end |-> FALSE]

FhIdle == [D |-> <<>>, read_data |-> <<>>, _loc |-> 0, returned |-> <<>>, ret |-> FhNoRet]

\* returned: everything the handle has given back so far, in order
FhReturn(op, data) ==
    [op |-> op, data |-> data, at_end |-> Len(fh.returned) = Len(fh.D)]

\* _read(size): size 0 is read() without argument
_read ==
    /\ \E size \in 0..MaxData :
        LET all == joined(fh.read_data)
            ret == IF size = 0 THEN all ELSE SubSeq(all, 1, IF size < Len(all) THEN size
                                                             ELSE Len(all))
        IN  fh' = [fh EXCEPT
                      !.read_data = IF size = 0 THEN <<>>
                                    ELSE _iterate_read_data(SubSeq(all, size + 1, Len(all))),
                      !._loc = @ + Len(ret),
                      !.returned = @ \o ret,
                      !.ret = FhReturn("read", ret)]
    /\ UNCHANGED <<oldVars, midVars, cluster, mockOpen, gluster, devs, norm>>

_readlines ==
    /\ fh' = [fh EXCEPT !.read_data = <<>>,
                        !._loc = @ + Len(joined(fh.read_data)),
                        !.returned = @ \o joined(fh.read_data),
                        !.ret = FhReturn("readlines", joined(fh.read_data))]
    /\ UNCHANGED <<oldVars, midVars, cluster, mockOpen, gluster, devs, norm>>

_readline ==
    /\ IF fh.read_data = <<>>
       THEN fh' = [fh EXCEPT !.ret = FhReturn("readline", <<>>)]
       ELSE fh' = [fh EXCEPT !.read_data = Tail(@),
                             !._loc = @ + Len(fh.read_data[1]),
                             !.returned = @ \o fh.read_data[1],
                             !.ret = FhReturn("readline", fh.read_data[1])]
    /\ UNCHANGED <<oldVars, midVars, cluster, mockOpen, gluster, devs, norm>>

\* one step of __iter__: yield next(self.read_data), or the end of the loop
__iter__ ==
    /\ IF fh.read_data = <<>>
       THEN fh' = [fh EXCEPT !.ret = FhReturn("__iter__", <<>>)]
       ELSE fh' = [fh EXCEPT !.read_data = Tail(@),
                             !.returned = @ \o fh.read_data[1],
                             !.ret = FhReturn("__iter__", fh.read_data[1])]
    /\ UNCHANGED <<oldVars, midVars, cluster, mockOpen, gluster, devs, norm>>

NextFh == _read \/ _readlines \/ _readline \/ __iter__

-----------------------------------------------------------------------------
(* gce: _expand_node, _expand_disk and avail_sizes on the objects the        *)
(* caller holds                                                              *)

MaxVendor == 2

\* the nodes, volumes and machine types libcloud handed back
VendorObjs == {Obj(t, n) : t \in {"node", "disk", "size"}, n \in 1..MaxVendor}

\* extra['zone'] of an object: the zone object, the dict of its __dict__,
\* or the empty dict; boot_disk: the key is there
FreshExtra(bootDisk) == [zone |-> "object", boot_disk |-> bootDisk]

NormNoRet == [fn |-> "none", target |-> {}, outcome |-> "", exc |-> "", value |-> <<>>]

NormIdle == [objs |-> [o \in VendorObjs |-> FreshExtra(FALSE)], ret |-> NormNoRet]

\* zone = extra['zone']; extra['zone'] = {}; extra['zone'].update(zone.__dict__):
\* a dict has no __dict__
ZoneExpanded(extra) ==
    IF extra.zone = "object" THEN [extra EXCEPT !.zone = "dict"]
    ELSE [extra EXCEPT !.zone = "empty"]

ZoneRaises(extra) == extra.zone # "object"

NormReturn(fn, target, objs, raised) ==
    [fn |-> fn, target |-> target,
     outcome |-> IF raised THEN "raised" ELSE "returned",
     exc |-> IF raised THEN "AttributeError" ELSE "",
     value |-> IF raised THEN <<>> ELSE [o \in target |-> objs[o]]]

\* ret.update(node.__dict__): ret['extra'] is node.extra itself;
\* del ret['extra']['boot_disk'] with the KeyError swallowed
_expand_node ==
    /\ \E n \in 1..MaxVendor :
        LET node == Obj("node", n)
            extra == [norm.objs[node] EXCEPT !.boot_disk = FALSE]
            objs == [norm.objs EXCEPT ![node] = ZoneExpanded(extra)]
        IN  norm' = [objs |-> objs,
                     ret |-> NormReturn("_expand_node", {node}, objs, ZoneRaises(extra))]
    /\ UNCHANGED <<oldVars, midVars, cluster, mockOpen, fh, gluster, devs>>

_expand_disk ==
    /\ \E n \in 1..MaxVendor :
        LET disk == Obj("disk", n)
            objs == [norm.objs EXCEPT ![disk] = ZoneExpanded(@)]
        IN  norm' = [objs |-> objs,
                     ret |-> NormReturn("_expand_disk", {disk}, objs,
                                        ZoneRaises(norm.objs[disk]))]
    /\ UNCHANGED <<oldVars, midVars, cluster, mockOpen, fh, gluster, devs>>

\* avail_sizes over raw_sizes: the loop ends at the first size whose zone is
\* no object
avail_sizes ==
    /\ LET raw_sizes == {Obj("size", n) : n \in 1..MaxVendor}
           bad == {n \in 1..MaxVendor : ZoneRaises(norm.objs[Obj("size", n)])}
           reached(n) == \A b \in bad : n <= b
           objs == [o \in VendorObjs |->
                       IF o \in raw_sizes /\ reached(o.n) THEN ZoneExpanded(norm.objs[o])
                       ELSE norm.objs[o]]
       IN  norm' = [objs |-> objs,
                    ret |-> NormReturn("avail_sizes", raw_sizes, objs, bad # {})]
    /\ UNCHANGED <<oldVars, midVars, cluster, mockOpen, fh, gluster, devs>>

\* libcloud hands back a new object for a node, a volume or a machine type
vendor_fetch ==
    /\ \E o \in VendorObjs, bootDisk \in BOOLEAN :
          /\ bootDisk => o.t = "node"
          /\ norm.objs[o] # FreshExtra(bootDisk)
          /\ norm' = [objs |-> [norm.objs EXCEPT ![o] = FreshExtra(bootDisk)],
                      ret |-> NormNoRet]
    /\ UNCHANGED <<oldVars, midVars, cluster, mockOpen, fh, gluster, devs>>

NextNorm == _expand_node \/ _expand_disk \/ avail_sizes \/ vendor_fetch

-----------------------------------------------------------------------------
(* glusterfs states: created and started                                     *)

MaxVolumes == 2

GlusterVolumes == 1..MaxVolumes

\* ret as the states build it first
GlusterRet(name) == [name |-> name, changes |-> {}, comment |-> "", result |-> "False"]

GlusterNoRet == [fn |-> "none", test |-> FALSE, log |-> <<>>, started_after |-> FALSE,
                 dict |-> GlusterRet(0)]

GlusterIdle == [volumes |-> {}, running |-> {}, ret |-> GlusterNoRet]

GlusterReturn(fn, test, log, started_after, dict) ==
    [fn |-> fn, test |-> test, log |-> log, started_after |-> started_after, dict |-> dict]

\* created(name): glusterfs.create and the volume list after it
created ==
    /\ \E name \in GlusterVolumes, test, made \in BOOLEAN :
        LET ret == GlusterRet(name)
            Ret(log, dict) == GlusterReturn("created", test, log, FALSE, dict)
        IN  IF name \in gluster.volumes
            THEN gluster' = [gluster EXCEPT
                    !.ret = Ret(<<"glusterfs.list_volumes">>,
                                [ret EXCEPT !.result = "True", !.comment = "already exists"])]
            ELSE IF test
            THEN gluster' = [gluster EXCEPT
                    !.ret = Ret(<<"glusterfs.list_volumes">>,
                                [ret EXCEPT !.result = "True", !.comment = "will be created"])]
            ELSE gluster' = [gluster EXCEPT
                    !.volumes = IF made THEN @ \cup {name} ELSE @,
                    !.ret = Ret(<<"glusterfs.list_volumes", "glusterfs.create",
                                  "glusterfs.list_volumes">>,
                                IF made
                                THEN [ret EXCEPT !.changes = {"new", "old"},
                                                 !.result = "True", !.comment = "created"]
                                ELSE [ret EXCEPT !.comment = "created"])]
    /\ UNCHANGED <<oldVars, midVars, cluster, mockOpen, fh, devs, norm>>

\* ret['change'] = {'new': 'started', 'old': ''}
StartedChanges(ret) ==
    [name |-> ret.name, changes |-> ret.changes, comment |-> ret.comment,
     result |-> ret.result, change |-> {"new", "old"}]

\* started(name): glusterfs.status, glusterfs.start and the status after it
started ==
    /\ \E name \in GlusterVolumes, test, up \in BOOLEAN :
        LET ret == GlusterRet(name)
            Ret(log, after, dict) == GlusterReturn("started", test, log, after, dict)
            seen == <<"glusterfs.list_volumes", "glusterfs.status">>
        IN  IF name \notin gluster.volumes
            THEN gluster' = [gluster EXCEPT
                    !.ret = Ret(<<"glusterfs.list_volumes">>, FALSE,
                                [ret EXCEPT !.comment = "does not exist"])]
            ELSE IF name \in gluster.running
            THEN gluster' = [gluster EXCEPT
                    !.ret = Ret(seen, TRUE,
                                [ret EXCEPT !.comment = "status", !.result = "True"])]
            ELSE IF test
            THEN gluster' = [gluster EXCEPT
                    !.ret = Ret(seen, FALSE,
                                [ret EXCEPT !.comment = "will be created",
                                            !.result = "True"])]
            ELSE gluster' = [gluster EXCEPT
                    !.running = IF up THEN @ \cup {name} ELSE @,
                    !.ret = Ret(seen \o <<"glusterfs.start", "glusterfs.status">>, up,
                                IF up
                                THEN StartedChanges([ret EXCEPT !.comment = "started",
                                                                !.result = "True"])
                                ELSE [ret EXCEPT !.comment = "is not started"])]
    /\ UNCHANGED <<oldVars, midVars, cluster, mockOpen, fh, devs, norm>>

\* an administrator stops or deletes a volume
volume_stopped ==
    /\ \E name \in gluster.volumes :
          gluster' = [gluster EXCEPT
                         !.volumes = IF name \in gluster.running THEN @ ELSE @ \ {name},
                         !.running = @ \ {name}]
    /\ UNCHANGED <<oldVars, midVars, cluster, mockOpen, fh, devs, norm>>

NextGluster == created \/ started \/ volume_stopped

-----------------------------------------------------------------------------
(* vmware: _manage_devices over the hard disks of a machine or template      *)

MaxUnit == 8
MaxHardDisks == 7
MaxSizeGb == 2
MaxNewDisks == 2

\* unit numbers of a SCSI controller: 7 is the controller itself
ScsiUnits == (0..MaxUnit) \ {7}

\* the hard disks of vm.config.hardware.device in the order of their unit
\* numbers, labelled "Hard disk 1", "Hard disk 2", ...; all of one capacity
RECURSIVE Ascending(_)
Ascending(units) ==
    IF units = {} THEN <<>>
    ELSE LET u == CHOOSE x \in units : \A y \in units : x <= y
         IN  <<u>> \o Ascending(units \ {u})

HardDisks(units, capacityGb) ==
    LET s == Ascending(units)
    IN  [i \in 1..Len(s) |-> [label |-> i, unitNumber |-> s[i],
                              capacityInKB |-> capacityGb * 1024 * 1024]]

\* devices['disk']: a size for one existing disk (edit = 0: for none) and for
\* new disks, which carry the labels after the existing ones
DiskRequests == [edit : 0..MaxHardDisks, size : 1..MaxSizeGb, new : 0..MaxNewDisks]

DevsIdle == [vm |-> <<>>, devices |-> [edit |-> 0, size |-> 1, new |-> 0],
             device_specs |-> <<>>, pc |-> "idle"]

_edit_existing_hard_disk_helper(disk, size_kb) ==
    [operation |-> "edit", label |-> disk.label, unitNumber |-> disk.unitNumber,
     capacityInKB |-> size_kb, was |-> disk.capacityInKB]

_add_new_hard_disk_helper(disk_label, size_gb, unit_number) ==
    [operation |-> "add", label |-> disk_label, unitNumber |-> unit_number,
     capacityInKB |-> size_gb * 1024 * 1024, was |-> 0]

\* unit_number += 1, and once more when it is the controller's
NextUnit(unit_number) == IF unit_number + 1 = 7 THEN unit_number + 2 ELSE unit_number + 1

\* unit_number after n steps from 0
RECURSIVE UnitAfter(_)
UnitAfter(n) == IF n = 0 THEN 0 ELSE NextUnit(UnitAfter(n - 1))

\* _manage_devices(devices, vm) for devices with a 'disk' entry
_manage_devices ==
    /\ devs.pc = "called"
    /\ LET vm == devs.vm
           size_gb == devs.devices.size
           size_kb == size_gb * 1024 * 1024
           asked == {i \in DOMAIN vm : vm[i].label = devs.devices.edit}
           edits == [i \in 1..Len(vm) |->
                        IF i \in asked /\ vm[i].capacityInKB < size_kb
                        THEN <<_edit_existing_hard_disk_helper(vm[i], size_kb)>>
                        ELSE <<>>]
           unit_number == UnitAfter(Len(vm))
           adds == [j \in 1..devs.devices.new |->
                       <<_add_new_hard_disk_helper(Len(vm) + j, size_gb,
                                                   UnitAfter(Len(vm) + j - 1))>>]
       IN  devs' = [devs EXCEPT !.device_specs = joined(edits) \o joined(adds),
                                !.pc = "returned"]
    /\ UNCHANGED <<oldVars, midVars, cluster, mockOpen, fh, gluster, norm>>

NextDevs == _manage_devices

-----------------------------------------------------------------------------
(* Inputs of _parse_allow: up to MaxEntries comma-separated entries, and   *)
(* the example of the function's own comment.                              *)
MaxEntries == 3

ProtoTokens == {"tcp", "TCP", "udp", "icmp", "sctp"}
PortTokens == {"53", "80"}

EntryForms ==
    {<<p>> : p \in ProtoTokens}
        \cup {<<p, ":", q>> : p \in ProtoTokens, q \in PortTokens}

DocExample ==
    <<"tcp", ":", "53", ",", "tcp", ":", "80", ",", "tcp", ":", "443", ",",
      "icmp", ",", "tcp", ":", "4201", ",", "udp", ":", "53">>

DocExampleResult ==
    << [IPProtocol |-> <<"tcp">>, ports |-> << <<"53">>, <<"80">>, <<"443">>, <<"4201">> >>],
       [IPProtocol |-> <<"icmp">>],
       [IPProtocol |-> <<"udp">>, ports |-> << <<"53">> >>] >>

AllowInputs ==
    {Join(es, ",") : es \in UNION {[1..n -> EntryForms] : n \in 1..MaxEntries}}
        \cup {DocExample}

ParseInit ==
    /\ allowIn \in AllowInputs
    /\ allowOut = [state |-> "pending"]
    /\ gce = GceEmpty
    /\ gceLog = <<>>
    /\ gceRet = NoRet
    /\ vms = <<>>
    /\ vmLog = <<>>
    /\ vmRet = NoVmRet
    /\ vmRun = IdleRun
    /\ lbHeap = <<>>
    /\ lbRet = NoValue
    /\ lbRun = LbIdle
    /\ pcsCluster = {}
    /\ pcsLog = <<>>
    /\ pcsRet = NoPcsRet
    /\ tc = TcIdle
    /\ ports = PortsIdle
    /\ cibFiles = CibIdle
    /\ lam = LamIdle
    /\ vpc = VpcIdle
    /\ cluster = ClusterIdle
    /\ mockOpen = MockOpenIdle
    /\ fh = FhIdle
    /\ gluster = GlusterIdle
    /\ devs = DevsIdle
    /\ norm = NormIdle

GceInit ==
    /\ allowIn = <<>>
    /\ allowOut = [state |-> "idle"]
    /\ gce \in GceProjects
    /\ gceLog = <<>>
    /\ gceRet = NoRet
    /\ vms = <<>>
    /\ vmLog = <<>>
    /\ vmRet = NoVmRet
    /\ vmRun = IdleRun
    /\ lbHeap = <<>>
    /\ lbRet = NoValue
    /\ lbRun = LbIdle
    /\ pcsCluster = {}
    /\ pcsLog = <<>>
    /\ pcsRet = NoPcsRet
    /\ tc = TcIdle
    /\ ports = PortsIdle
    /\ cibFiles = CibIdle
    /\ lam = LamIdle
    /\ vpc = VpcIdle
    /\ cluster = ClusterIdle
    /\ mockOpen = MockOpenIdle
    /\ fh = FhIdle
    /\ gluster = GlusterIdle
    /\ devs = DevsIdle
    /\ norm = NormIdle

VmwareInit ==
    /\ allowIn = <<>>
    /\ allowOut = [state |-> "idle"]
    /\ gce = GceEmpty
    /\ gceLog = <<>>
    /\ gceRet = NoRet
    /\ vms \in VmInventories
    /\ vmLog = <<>>
    /\ vmRet = NoVmRet
    /\ vmRun = IdleRun
    /\ lbHeap = <<>>
    /\ lbRet = NoValue
    /\ lbRun = LbIdle
    /\ pcsCluster = {}
    /\ pcsLog = <<>>
    /\ pcsRet = NoPcsRet
    /\ tc = TcIdle
    /\ ports = PortsIdle
    /\ cibFiles = CibIdle
    /\ lam = LamIdle
    /\ vpc = VpcIdle
    /\ cluster = ClusterIdle
    /\ mockOpen = MockOpenIdle
    /\ fh = FhIdle
    /\ gluster = GlusterIdle
    /\ devs = DevsIdle
    /\ norm = NormIdle

\* the drivers of the lifecycle events: a Google project or a vCenter
CloudInit ==
    /\ allowIn = <<>>
    /\ allowOut = [state |-> "idle"]
    /\ gceLog = <<>>
    /\ gceRet = NoRet
    /\ vmLog = <<>>
    /\ vmRet = NoVmRet
    /\ vmRun = IdleRun
    /\ lbHeap = <<>>
    /\ lbRet = NoValue
    /\ lbRun = LbIdle
    /\ pcsCluster = {}
    /\ pcsLog = <<>>
    /\ pcsRet = NoPcsRet
    /\ tc = TcIdle
    /\ ports = PortsIdle
    /\ cibFiles = CibIdle
    /\ lam = LamIdle
    /\ vpc = VpcIdle
    /\ cluster = ClusterIdle
    /\ mockOpen = MockOpenIdle
    /\ fh = FhIdle
    /\ gluster = GlusterIdle
    /\ devs = DevsIdle
    /\ norm = NormIdle
    /\ \/ gce \in GceProjects /\ vms = <<>>
       \/ gce = GceEmpty /\ vms \in VmInventories

LbInit ==
    /\ allowIn = <<>>
    /\ allowOut = [state |-> "idle"]
    /\ gce = GceEmpty
    /\ gceLog = <<>>
    /\ gceRet = NoRet
    /\ vms = <<>>
    /\ vmLog = <<>>
    /\ vmRet = NoVmRet
    /\ vmRun = IdleRun
    /\ lbHeap \in LbGraphs
    /\ lbRet = NoValue
    /\ lbRun = LbCalled
    /\ pcsCluster = {}
    /\ pcsLog = <<>>
    /\ pcsRet = NoPcsRet
    /\ tc = TcIdle
    /\ ports = PortsIdle
    /\ cibFiles = CibIdle
    /\ lam = LamIdle
    /\ vpc = VpcIdle
    /\ cluster = ClusterIdle
    /\ mockOpen = MockOpenIdle
    /\ fh = FhIdle
    /\ gluster = GlusterIdle
    /\ devs = DevsIdle
    /\ norm = NormIdle

PcsInit ==
    /\ allowIn = <<>>
    /\ allowOut = [state |-> "idle"]
    /\ gce = GceEmpty
    /\ gceLog = <<>>
    /\ gceRet = NoRet
    /\ vms = <<>>
    /\ vmLog = <<>>
    /\ vmRet = NoVmRet
    /\ vmRun = IdleRun
    /\ lbHeap = <<>>
    /\ lbRet = NoValue
    /\ lbRun = LbIdle
    /\ pcsCluster = {}
    /\ pcsLog = <<>>
    /\ pcsRet = NoPcsRet
    /\ tc = TcIdle
    /\ ports = PortsIdle
    /\ cibFiles = CibIdle
    /\ lam = LamIdle
    /\ vpc = VpcIdle
    /\ cluster = ClusterIdle
    /\ mockOpen = MockOpenIdle
    /\ fh = FhIdle
    /\ gluster = GlusterIdle
    /\ devs = DevsIdle
    /\ norm = NormIdle

ParseAllow ==
    /\ allowOut.state = "pending"
    /\ \E order \in DictOrders(Len(SeenProtos(allowIn).seen.keys)) :
            allowOut' = ParseAllowResult(allowIn, order)
    /\ UNCHANGED allowIn
    /\ UNCHANGED <<gceVars, vmVars, lbVars, pcsVars, newVars>>

vars == <<parseVars, gceVars, vmVars, lbVars, pcsVars, newVars>>

SpecParse == ParseInit /\ [][ParseAllow]_vars

SpecGce ==
    GceInit /\ [][NextGce]_vars

SpecVmware == VmwareInit /\ [][NextVmware]_vars

\* gce.destroy and the vmware functions
NextCloud == destroy_gce \/ NextVmware

SpecCloud == CloudInit /\ [][NextCloud]_vars

SpecPcs == PcsInit /\ [][NextPcs]_vars

\* a call of _expand_balancer runs on: no statement of it blocks
SpecLb == LbInit /\ [][_expand_balancer]_vars /\ WF_vars(_expand_balancer)

TcInit ==
    /\ tc \in [nodes : TcInventories, log : {<<>>}, run : {TcIdleRun}, ret : {TcNoRet}]
    /\ allowIn = <<>>
    /\ allowOut = [state |-> "idle"]
    /\ gce = GceEmpty
    /\ gceLog = <<>>
    /\ gceRet = NoRet
    /\ vms = <<>>
    /\ vmLog = <<>>
    /\ vmRet = NoVmRet
    /\ vmRun = IdleRun
    /\ lbHeap = <<>>
    /\ lbRet = NoValue
    /\ lbRun = LbIdle
    /\ pcsCluster = {}
    /\ pcsLog = <<>>
    /\ pcsRet = NoPcsRet
    /\ ports = PortsIdle
    /\ cibFiles = CibIdle
    /\ lam = LamIdle
    /\ vpc = VpcIdle
    /\ cluster = ClusterIdle
    /\ mockOpen = MockOpenIdle
    /\ fh = FhIdle
    /\ gluster = GlusterIdle
    /\ devs = DevsIdle
    /\ norm = NormIdle

LocateInit ==
    /\ tc \in [nodes : TcInventories, log : {<<>>}, run : {TcIdleRun}, ret : {TcNoRet}]
    /\ allowIn = <<>>
    /\ allowOut = [state |-> "idle"]
    /\ gce = GceEmpty
    /\ gceLog = <<>>
    /\ gceRet = NoRet
    /\ vms \in IF tc.nodes = <<>> THEN VmInventories ELSE {<<>>}
    /\ vmLog = <<>>
    /\ vmRet = NoVmRet
    /\ vmRun = IdleRun
    /\ lbHeap = <<>>
    /\ lbRet = NoValue
    /\ lbRun = LbIdle
    /\ pcsCluster = {}
    /\ pcsLog = <<>>
    /\ pcsRet = NoPcsRet
    /\ ports = PortsIdle
    /\ cibFiles = CibIdle
    /\ lam = LamIdle
    /\ vpc = VpcIdle
    /\ cluster = ClusterIdle
    /\ mockOpen = MockOpenIdle
    /\ fh = FhIdle
    /\ gluster = GlusterIdle
    /\ devs = DevsIdle
    /\ norm = NormIdle

PortsInit ==
    /\ ports \in [stored : [set : BOOLEAN, vals : [PortOpts -> OnOff]], log : {<<>>}, ret : {PortsNoRet}]
    /\ allowIn = <<>>
    /\ allowOut = [state |-> "idle"]
    /\ gce = GceEmpty
    /\ gceLog = <<>>
    /\ gceRet = NoRet
    /\ vms = <<>>
    /\ vmLog = <<>>
    /\ vmRet = NoVmRet
    /\ vmRun = IdleRun
    /\ lbHeap = <<>>
    /\ lbRet = NoValue
    /\ lbRun = LbIdle
    /\ pcsCluster = {}
    /\ pcsLog = <<>>
    /\ pcsRet = NoPcsRet
    /\ tc = TcIdle
    /\ cibFiles = CibIdle
    /\ lam = LamIdle
    /\ vpc = VpcIdle
    /\ cluster = ClusterIdle
    /\ mockOpen = MockOpenIdle
    /\ fh = FhIdle
    /\ gluster = GlusterIdle
    /\ devs = DevsIdle
    /\ norm = NormIdle

CibInit ==
    /\ cibFiles \in [live : CibDocs, cibfile : {0}, tmp : {0}, cksum : {NoFile}, ret : {CibNoRet}]
    /\ allowIn = <<>>
    /\ allowOut = [state |-> "idle"]
    /\ gce = GceEmpty
    /\ gceLog = <<>>
    /\ gceRet = NoRet
    /\ vms = <<>>
    /\ vmLog = <<>>
    /\ vmRet = NoVmRet
    /\ vmRun = IdleRun
    /\ lbHeap = <<>>
    /\ lbRet = NoValue
    /\ lbRun = LbIdle
    /\ pcsCluster = {}
    /\ pcsLog = <<>>
    /\ pcsRet = NoPcsRet
    /\ tc = TcIdle
    /\ ports = PortsIdle
    /\ lam = LamIdle
    /\ vpc = VpcIdle
    /\ cluster = ClusterIdle
    /\ mockOpen = MockOpenIdle
    /\ fh = FhIdle
    /\ gluster = GlusterIdle
    /\ devs = DevsIdle
    /\ norm = NormIdle

LambdaInit ==
    /\ lam \in [functions : LambdaAccounts, log : {<<>>}, ret : {LamNoRet}]
    /\ allowIn = <<>>
    /\ allowOut = [state |-> "idle"]
    /\ gce = GceEmpty
    /\ gceLog = <<>>
    /\ gceRet = NoRet
    /\ vms = <<>>
    /\ vmLog = <<>>
    /\ vmRet = NoVmRet
    /\ vmRun = IdleRun
    /\ lbHeap = <<>>
    /\ lbRet = NoValue
    /\ lbRun = LbIdle
    /\ pcsCluster = {}
    /\ pcsLog = <<>>
    /\ pcsRet = NoPcsRet
    /\ tc = TcIdle
    /\ ports = PortsIdle
    /\ cibFiles = CibIdle
    /\ vpc = VpcIdle
    /\ cluster = ClusterIdle
    /\ mockOpen = MockOpenIdle
    /\ fh = FhIdle
    /\ gluster = GlusterIdle
    /\ devs = DevsIdle
    /\ norm = NormIdle

VpcInit ==
    /\ allowIn = <<>>
    /\ allowOut = [state |-> "idle"]
    /\ gce = GceEmpty
    /\ gceLog = <<>>
    /\ gceRet = NoRet
    /\ vms = <<>>
    /\ vmLog = <<>>
    /\ vmRet = NoVmRet
    /\ vmRun = IdleRun
    /\ lbHeap = <<>>
    /\ lbRet = NoValue
    /\ lbRun = LbIdle
    /\ pcsCluster = {}
    /\ pcsLog = <<>>
    /\ pcsRet = NoPcsRet
    /\ tc = TcIdle
    /\ ports = PortsIdle
    /\ cibFiles = CibIdle
    /\ lam = LamIdle
    /\ vpc = VpcIdle
    /\ cluster = ClusterIdle
    /\ mockOpen = MockOpenIdle
    /\ fh = FhIdle
    /\ gluster = GlusterIdle
    /\ devs = DevsIdle
    /\ norm = NormIdle

DestroyInit ==
    /\ gce \in GceProjects
    /\ allowIn = <<>>
    /\ allowOut = [state |-> "idle"]
    /\ gceLog = <<>>
    /\ gceRet = NoRet
    /\ vms \in IF gce = GceEmpty THEN VmInventories ELSE {<<>>}
    /\ vmLog = <<>>
    /\ vmRet = NoVmRet
    /\ vmRun = IdleRun
    /\ lbHeap = <<>>
    /\ lbRet = NoValue
    /\ lbRun = LbIdle
    /\ pcsCluster = {}
    /\ pcsLog = <<>>
    /\ pcsRet = NoPcsRet
    /\ tc \in IF gce = GceEmpty /\ vms = <<>> THEN [nodes : TcInventories, log : {<<>>}, run : {TcIdleRun}, ret : {TcNoRet}] ELSE {TcIdle}
    /\ ports = PortsIdle
    /\ cibFiles = CibIdle
    /\ lam = LamIdle
    /\ vpc = VpcIdle
    /\ cluster = ClusterIdle
    /\ mockOpen = MockOpenIdle
    /\ fh = FhIdle
    /\ gluster = GlusterIdle
    /\ devs = DevsIdle
    /\ norm = NormIdle

ClusterInit ==
    /\ cluster \in [authorized : SUBSET ClusterNodes, name : ClusterNames, members : {{}}, log : {<<>>}, ret : {ClusterNoRet}]
    /\ allowIn = <<>>
    /\ allowOut = [state |-> "idle"]
    /\ gce = GceEmpty
    /\ gceLog = <<>>
    /\ gceRet = NoRet
    /\ vms = <<>>
    /\ vmLog = <<>>
    /\ vmRet = NoVmRet
    /\ vmRun = IdleRun
    /\ lbHeap = <<>>
    /\ lbRet = NoValue
    /\ lbRun = LbIdle
    /\ pcsCluster = {}
    /\ pcsLog = <<>>
    /\ pcsRet = NoPcsRet
    /\ tc = TcIdle
    /\ ports = PortsIdle
    /\ cibFiles = CibIdle
    /\ lam = LamIdle
    /\ vpc = VpcIdle
    /\ mockOpen = MockOpenIdle
    /\ fh = FhIdle
    /\ gluster = GlusterIdle
    /\ devs = DevsIdle
    /\ norm = NormIdle

NormInit ==
    /\ norm \in [objs : {f \in [VendorObjs -> {FreshExtra(FALSE), FreshExtra(TRUE)}] : \A o \in VendorObjs : f[o].boot_disk => o.t = "node"}, ret : {NormNoRet}]
    /\ allowIn = <<>>
    /\ allowOut = [state |-> "idle"]
    /\ gce = GceEmpty
    /\ gceLog = <<>>
    /\ gceRet = NoRet
    /\ vms = <<>>
    /\ vmLog = <<>>
    /\ vmRet = NoVmRet
    /\ vmRun = IdleRun
    /\ lbHeap = <<>>
    /\ lbRet = NoValue
    /\ lbRun = LbIdle
    /\ pcsCluster = {}
    /\ pcsLog = <<>>
    /\ pcsRet = NoPcsRet
    /\ tc = TcIdle
    /\ ports = PortsIdle
    /\ cibFiles = CibIdle
    /\ lam = LamIdle
    /\ vpc = VpcIdle
    /\ cluster = ClusterIdle
    /\ mockOpen = MockOpenIdle
    /\ fh = FhIdle
    /\ gluster = GlusterIdle
    /\ devs = DevsIdle

MockOpenInit ==
    /\ \E d \in MockReadData : mockOpen = [MockOpenIdle EXCEPT !.read_data = d, !.given = d]
    /\ allowIn = <<>>
    /\ allowOut = [state |-> "idle"]
    /\ gce = GceEmpty
    /\ gceLog = <<>>
    /\ gceRet = NoRet
    /\ vms = <<>>
    /\ vmLog = <<>>
    /\ vmRet = NoVmRet
    /\ vmRun = IdleRun
    /\ lbHeap = <<>>
    /\ lbRet = NoValue
    /\ lbRun = LbIdle
    /\ pcsCluster = {}
    /\ pcsLog = <<>>
    /\ pcsRet = NoPcsRet
    /\ tc = TcIdle
    /\ ports = PortsIdle
    /\ cibFiles = CibIdle
    /\ lam = LamIdle
    /\ vpc = VpcIdle
    /\ cluster = ClusterIdle
    /\ fh = FhIdle
    /\ gluster = GlusterIdle
    /\ devs = DevsIdle
    /\ norm = NormIdle

FhInit ==
    /\ \E d \in FhData : fh = [FhIdle EXCEPT !.D = d, !.read_data = _iterate_read_data(d)]
    /\ allowIn = <<>>
    /\ allowOut = [state |-> "idle"]
    /\ gce = GceEmpty
    /\ gceLog = <<>>
    /\ gceRet = NoRet
    /\ vms = <<>>
    /\ vmLog = <<>>
    /\ vmRet = NoVmRet
    /\ vmRun = IdleRun
    /\ lbHeap = <<>>
    /\ lbRet = NoValue
    /\ lbRun = LbIdle
    /\ pcsCluster = {}
    /\ pcsLog = <<>>
    /\ pcsRet = NoPcsRet
    /\ tc = TcIdle
    /\ ports = PortsIdle
    /\ cibFiles = CibIdle
    /\ lam = LamIdle
    /\ vpc = VpcIdle
    /\ cluster = ClusterIdle
    /\ mockOpen = MockOpenIdle
    /\ gluster = GlusterIdle
    /\ devs = DevsIdle
    /\ norm = NormIdle

GlusterInit ==
    /\ \E vs \in SUBSET GlusterVolumes : \E up \in SUBSET vs : gluster = [volumes |-> vs, running |-> up, ret |-> GlusterNoRet]
    /\ allowIn = <<>>
    /\ allowOut = [state |-> "idle"]
    /\ gce = GceEmpty
    /\ gceLog = <<>>
    /\ gceRet = NoRet
    /\ vms = <<>>
    /\ vmLog = <<>>
    /\ vmRet = NoVmRet
    /\ vmRun = IdleRun
    /\ lbHeap = <<>>
    /\ lbRet = NoValue
    /\ lbRun = LbIdle
    /\ pcsCluster = {}
    /\ pcsLog = <<>>
    /\ pcsRet = NoPcsRet
    /\ tc = TcIdle
    /\ ports = PortsIdle
    /\ cibFiles = CibIdle
    /\ lam = LamIdle
    /\ vpc = VpcIdle
    /\ cluster = ClusterIdle
    /\ mockOpen = MockOpenIdle
    /\ fh = FhIdle
    /\ devs = DevsIdle
    /\ norm = NormIdle

DevsInit ==
    /\ \E units \in SUBSET ScsiUnits, capacityGb \in 1..MaxSizeGb, devices \in DiskRequests : /\ Cardinality(units) <= MaxHardDisks /\ devices.edit <= Cardinality(units) /\ devs = [vm |-> HardDisks(units, capacityGb), devices |-> devices, device_specs |-> <<>>, pc |-> "called"]
    /\ allowIn = <<>>
    /\ allowOut = [state |-> "idle"]
    /\ gce = GceEmpty
    /\ gceLog = <<>>
    /\ gceRet = NoRet
    /\ vms = <<>>
    /\ vmLog = <<>>
    /\ vmRet = NoVmRet
    /\ vmRun = IdleRun
    /\ lbHeap = <<>>
    /\ lbRet = NoValue
    /\ lbRun = LbIdle
    /\ pcsCluster = {}
    /\ pcsLog = <<>>
    /\ pcsRet = NoPcsRet
    /\ tc = TcIdle
    /\ ports = PortsIdle
    /\ cibFiles = CibIdle
    /\ lam = LamIdle
    /\ vpc = VpcIdle
    /\ cluster = ClusterIdle
    /\ mockOpen = MockOpenIdle
    /\ fh = FhIdle
    /\ gluster = GlusterIdle
    /\ norm = NormIdle

SpecTc == TcInit /\ [][NextTc]_vars

\* the functions that find a resource by its name: tencentcloud's through
\* _get_node, vmware's create through _get_mor_by_property
NextLocate == destroy_tc \/ start_tc \/ create_vmware \/ create_wait \/ vm_task

SpecLocate == LocateInit /\ [][NextLocate]_vars

SpecPorts == PortsInit /\ [][config]_vars

SpecCib == CibInit /\ [][NextCib]_vars

SpecLambda == LambdaInit /\ [][NextLambda]_vars

SpecVpc == VpcInit /\ [][create_vpc]_vars

SpecCluster == ClusterInit /\ [][NextCluster]_vars

\* destroy of the three cloud drivers
NextDestroy ==
    \/ destroy_gce \/ destroy_tc
    \/ destroy_vmware \/ destroy_loop \/ destroy_wait_off \/ destroy_wait_destroy \/ vm_task

SpecDestroy == DestroyInit /\ [][NextDestroy]_vars

SpecMockOpen == MockOpenInit /\ [][NextMockOpen]_vars

SpecFh == FhInit /\ [][NextFh]_vars

SpecNorm == NormInit /\ [][NextNorm]_vars

SpecGluster == GlusterInit /\ [][NextGluster]_vars

SpecDevs == DevsInit /\ [][NextDevs]_vars

-----------------------------------------------------------------------------
(* Properties                                                              *)

Range(f) == {f[i] : i \in DOMAIN f}

PowerFns == {"start", "stop", "suspend", "reset"}

\* the vendor calls of the last vmware function
VmCalls == {k \in DOMAIN vmLog : vmLog[k].kind = "mutate"}

\* the listed machines that carry the name the last vmware function was given
VmMatches == {k \in DOMAIN vmRet.vm_list : vmRet.vm_list[k].name = vmRet.name}

\* the probed power states under which a power call is redundant or forbidden
SettledStates(method) ==
    CASE method = "PowerOn" -> {"poweredOn"}
      [] method = "PowerOff" -> {"poweredOff"}
      [] method = "Suspend" -> {"poweredOff", "suspended"}
      [] method = "Reset" -> {"suspended", "poweredOff"}

SettledMessages ==
    {"already powered on", "already powered off", "already suspended",
     "cannot suspend in powered off state",
     "cannot reset in suspended/powered off state"}

SuccessValues == {"powered on", "powered off", "suspended", "reset", "True"}

\* C2: in vmware start, stop, suspend and reset no power call goes to a
\* machine whose probed power state already satisfies or forbids the
\* request, and a function that returns its 'already ...' or 'cannot ...'
\* message has made no vendor call at all.
C2_NoRedundantPowerCall ==
    (vmRet.fn \in PowerFns /\ vmRet.outcome = "returned") =>
        /\ \A k \in VmCalls : vmLog[k].seen \notin SettledStates(vmLog[k].name)
        /\ vmRet.value \in SettledMessages => VmCalls = {}

\* C10: vmware start, stop, suspend, reset or destroy given a name that no
\* listed machine carries does not return its success value and fires no
\* 'destroyed' event.
C10_NoMatchSignalsNotFound ==
    (/\ vmRet.fn \in PowerFns \cup {"destroy"}
     /\ vmRet.outcome = "returned"
     /\ VmMatches = {}) =>
        /\ vmRet.value \notin SuccessValues
        /\ VmEv("destroyed instance", "destroyed") \notin Range(vmLog)

PcsCreateCalls == {k \in DOMAIN pcsLog : pcsLog[k].name = "pcs.item_create"}

\* C1: a state built on _item_present, applied outside test mode again with
\* the arguments of an application that created the item, while the cluster
\* or the CIB file holds the item, issues no pcs.item_create and returns
\* result True, no changes and the 'already existing' comment.
C1_SecondApplicationCreatesNothing ==
    (pcsRet.again /\ pcsRet.reported /\ ~pcsRet.test) =>
        /\ PcsCreateCalls = {}
        /\ pcsRet.result = "True"
        /\ ~pcsRet.changes
        /\ pcsRet.comment = "is already existing"

LbReturned == lbRun.pc = "returned"

\* no object is expanded again beneath its own expansion (ret['extra'] and a
\* node's extra are the objects' own dicts and are read through)
RECURSIVE ExpandedOnce(_, _)
ExpandedOnce(v, above) ==
    CASE v.k = "dict" ->
           /\ v.of \notin above
           /\ \A f \in DOMAIN v.fields : ExpandedOnce(v.fields[f], above \cup {v.of})
      [] v.k = "list" -> \A i \in DOMAIN v.items : ExpandedOnce(v.items[i], above)
      [] v.k = "ref" /\ v.of.t \in {"lb.extra", "node.extra"} ->
           \A f \in DOMAIN lbHeap[v.of] : ExpandedOnce(lbHeap[v.of][f], above)
      [] OTHER -> TRUE

NamesOf(refs) == [i \in DOMAIN refs |-> Name(refs[i].of)]

\* C9: _expand_balancer returns on every load balancer whose objects are
\* referenced from several places, and in what it returns
\* forwarding_rule.targetpool, forwarding_rule.region, targetpool.healthchecks
\* and targetpool.region.zones hold names only, and no object is expanded
\* beneath its own expansion.
C9_ExpandBalancerReturnsNames ==
    /\ <>LbReturned
    /\ [](LbReturned =>
            LET extra == lbHeap[LbExtra]
                fwr == extra.forwarding_rule.fields
                tp == extra.targetpool.fields
            IN  /\ fwr.targetpool = Name(Tp)
                /\ fwr.region = Name(Obj("region", 1))
                /\ tp.healthchecks = List(NamesOf(lbHeap[Tp].healthchecks.items))
                /\ tp.region.fields.zones =
                      List(NamesOf(lbHeap[Obj("region", 1)].zones.items))
                /\ Len(tp.nodes.items) = Len(lbHeap[Tp].nodes.items)
                /\ ExpandedOnce(lbRet, {}))

\* a balancer with health checks, nodes and zones, whose forwarding rule and
\* target pool share the region object, has been expanded
C9_Witness ==
    /\ LbReturned
    /\ lbHeap[Fwr].region = lbHeap[Tp].region
    /\ lbHeap[Tp].healthchecks.items # <<>>
    /\ lbHeap[Tp].nodes.items # <<>>
    /\ lbHeap[Obj("region", 1)].zones.items # <<>>
    /\ lbHeap[LbExtra].healthchecks.items # <<>>

\* the entries of a trace before position i
Before(log, i) == {log[j] : j \in 1..(i - 1)}

\* C4: in gce.destroy, vmware.create and vmware.destroy a terminal success
\* event is in the trace only after the vendor mutation of that resource
\* completed: destroy_node or destroy_volume returned, the Clone or the
\* Destroy_Task task was left on 'success'.
C4_SuccessEventAfterSuccess ==
    /\ gceRet.fn = "destroy" =>
          \A i \in DOMAIN gceLog :
              /\ gceLog[i] = Ev("delete instance", "deleted") =>
                    Mut("destroy_node", TRUE) \in Before(gceLog, i)
              /\ gceLog[i] = Ev("delete persistent_disk", "deleted") =>
                    Mut("destroy_volume", TRUE) \in Before(gceLog, i)
    /\ \A i \in DOMAIN vmLog :
          /\ vmLog[i] = VmEv("created instance", "created") =>
                \E e \in Before(vmLog, i) :
                    e.kind = "waited" /\ e.name = "Clone" /\ e.seen = "success"
          /\ vmLog[i] = VmEv("destroyed instance", "destroyed") =>
                \E e \in Before(vmLog, i) :
                    e.kind = "waited" /\ e.name = "Destroy_Task" /\ e.seen = "success"

\* the entries of the allow string passed in, each as its ":"-separated fields
InputPairs == [i \in 1..Len(Split(allowIn, ",")) |-> Split(Split(allowIn, ",")[i], ":")]

\* the protocol names of the input, each at its first appearance
RECURSIVE FirstAppearances(_)
FirstAppearances(names) ==
    IF names = <<>> THEN <<>>
    ELSE LET n == Len(names)
             front == FirstAppearances(SubSeq(names, 1, n - 1))
         IN  IF names[n] \in Range(front) THEN front ELSE Append(front, names[n])

NamedProtos == FirstAppearances([i \in 1..Len(InputPairs) |-> InputPairs[i][1]])

\* the ports the input gives for a protocol, in input order
RECURSIVE PortsFrom(_, _)
PortsFrom(proto, i) ==
    IF i > Len(InputPairs) THEN <<>>
    ELSE IF InputPairs[i][1] = proto /\ Len(InputPairs[i]) > 1
         THEN <<InputPairs[i][2]>> \o PortsFrom(proto, i + 1)
         ELSE PortsFrom(proto, i + 1)

PortsGiven(proto) == PortsFrom(proto, 1)

RECURSIVE IsSubsequence(_, _)
IsSubsequence(a, b) ==
    IF a = <<>> THEN TRUE
    ELSE IF b = <<>> THEN FALSE
    ELSE IF Head(a) = Head(b) THEN IsSubsequence(Tail(a), Tail(b))
    ELSE IsSubsequence(a, Tail(b))

EntryPorts(d) == IF "ports" \in DOMAIN d THEN d.ports ELSE <<>>

\* the events and vendor mutation calls of the last gce function, in order
GceSteps == SelectSeq(gceLog, LAMBDA e : e.kind \in {"event", "mutate"})

GceCount(kind, name) ==
    Cardinality({i \in 1..Len(gceLog) : gceLog[i].kind = kind /\ gceLog[i].name = name})

CreateFns == {"create_network", "create_fwrule", "create_hc", "create_lb",
              "create_disk", "create_snapshot"}
DeleteFns == {"delete_network", "delete_fwrule", "delete_hc", "delete_lb",
              "delete_disk", "delete_snapshot"}
AttachFns == {"attach_lb", "attach_disk"}
DetachFns == {"detach_lb", "detach_disk"}

StartTag(fn) ==
    IF fn \in CreateFns THEN "creating" ELSE IF fn \in DeleteFns THEN "deleting"
    ELSE IF fn \in AttachFns THEN "attaching" ELSE "detaching"

EndTag(fn) ==
    IF fn \in CreateFns THEN "created" ELSE IF fn \in DeleteFns THEN "deleted"
    ELSE IF fn \in AttachFns THEN "attached" ELSE "detached"

VendorCallSucceeded == \E i \in 1..Len(gceLog) : gceLog[i].kind = "mutate" /\ gceLog[i].ok

\* C3: in every gce create_*, delete_*, attach_* and detach_* function whose
\* vendor call succeeds, the events and vendor mutation calls are exactly:
\* the start event, the one mutation call, the terminal event.
C3_EventsBracketMutation ==
    (gceRet.fn \in CreateFns \cup DeleteFns \cup AttachFns \cup DetachFns
        /\ VendorCallSucceeded) =>
        /\ Len(GceSteps) = 3
        /\ GceSteps[1].kind = "event" /\ GceSteps[1].name = StartTag(gceRet.fn)
        /\ GceSteps[2].kind = "mutate"
        /\ GceSteps[3].kind = "event" /\ GceSteps[3].name = EndTag(gceRet.fn)

C3_Witness ==
    /\ gceRet.fn = "attach_disk"
    /\ gceRet.outcome = "returned"
    /\ VendorCallSucceeded

\* the disk was attached to an instance when delete_disk reached the vendor
DeleteOfAttachedDisk ==
    gceRet.fn = "delete_disk" /\ gceRet.inUse /\ gceLog # <<>>

\* C5 as claimed: delete_disk on an attached disk reports an in-use failure
\* and issues zero destroy_volume calls.
C5_ZeroDeleteCalls ==
    DeleteOfAttachedDisk =>
        /\ gceRet.outcome # "returned"
        /\ GceCount("mutate", "destroy_volume") = 0

\* C5 as amended: delete_disk on an attached disk issues one destroy_volume
\* call, which the vendor refuses; it detaches nothing, fires no 'deleted'
\* event, leaves the disk in place, and returns False when the refusal is
\* ResourceInUseError.
C5_VendorRefusesDelete ==
    DeleteOfAttachedDisk =>
        /\ GceCount("mutate", "destroy_volume") = 1
        /\ \A i \in 1..Len(gceLog) : gceLog[i].kind = "mutate" => ~gceLog[i].ok
        /\ GceCount("mutate", "detach_volume") = 0
        /\ GceCount("event", "deleted") = 0
        /\ gce.disk /\ gce.attached
        /\ gceRet.outcome # "returned"
        /\ (gceRet.exc = "ResourceInUseError" <=> gceRet.outcome = "false")

C5_Witness ==
    /\ DeleteOfAttachedDisk
    /\ gceRet.exc = "ResourceInUseError"
    /\ GceCount("mutate", "destroy_volume") = 1

\* an entry of the allow string names a protocol other than tcp, udp, icmp
NamesOtherProtocol(allow) ==
    \E e \in Range(Split(allow, ",")) :
        Lower(Split(e, ":")[1]) \notin {<<"tcp">>, <<"udp">>, <<"icmp">>}

\* C6: create_fwrule with an allow string naming a protocol other than tcp,
\* udp or icmp obtains no connection, fires no event and makes no vendor
\* call; called with a name, it raises SaltCloudSystemExit.
C6_InvalidProtocolRejectedFirst ==
    (gceRet.fn = "create_fwrule" /\ gceRet.allow # NoAllow
        /\ NamesOtherProtocol(gceRet.allow)) =>
        /\ gceLog = <<>>
        /\ gceRet.outcome # "returned"
        /\ (gceRet.named =>
               gceRet.outcome = "raised" /\ gceRet.exc = "SaltCloudSystemExit")

C6_Witness ==
    /\ gceRet.fn = "create_fwrule"
    /\ gceRet.allow = <<"tcp", ":", "80", ",", "sctp", ":", "80">>
    /\ gceRet.named
    /\ gceRet.outcome = "raised"

\* C7: _parse_allow returns the protocols in the order of their first
\* appearance in the input and each protocol's ports in input order; the
\* example of the comment yields tcp [53,80,443,4201], icmp, udp [53].
C7_FirstSeenOrder ==
    allowOut.state = "returned" =>
        /\ [i \in 1..Len(allowOut.allow_dict) |-> allowOut.allow_dict[i].IPProtocol]
               = NamedProtos
        /\ \A i \in 1..Len(allowOut.allow_dict) :
               IsSubsequence(EntryPorts(allowOut.allow_dict[i]),
                             PortsGiven(allowOut.allow_dict[i].IPProtocol))
        /\ (allowIn = DocExample => allowOut.allow_dict = DocExampleResult)

\* C8: every protocol named in an accepted input has exactly one output
\* entry, every port given for tcp or udp is in that protocol's entry, and
\* the icmp entry carries no ports.
C8_NoPortDropped ==
    allowOut.state = "returned" =>
        /\ \A proto \in Range(NamedProtos) :
               Cardinality({i \in 1..Len(allowOut.allow_dict) :
                               allowOut.allow_dict[i].IPProtocol = proto}) = 1
        /\ \A i \in 1..Len(allowOut.allow_dict) :
               LET d == allowOut.allow_dict[i]
               IN  IF Lower(d.IPProtocol) = <<"icmp">>
                   THEN "ports" \notin DOMAIN d
                   ELSE Range(PortsGiven(d.IPProtocol)) \subseteq Range(EntryPorts(d))

\* the machines listed under the name of the machine a running clone copies
CloneSourceMatches ==
    {k \in DOMAIN vms : vms[k].power # "gone" /\ vms[k].name = vms[vmRun.obj].name}

\* C11: a lookup by name that finds more than one resource of that name
\* signals an error: no function goes on to act on the first match, neither
\* tencentcloud's through _get_node nor vmware's create through
\* _get_mor_by_property.
C11_AmbiguousNameSignalled ==
    /\ tc.ret.fn \in {"start", "destroy"} /\ tc.ret.matches > 1
          => tc.ret.outcome = "raised"
    /\ vmRun.pc = "create_wait" /\ vmRun.task = "queued"
          => Cardinality(CloneSourceMatches) <= 1

\* the probes of the running or last create
TcProbes == {i \in DOMAIN tc.log : tc.log[i].name = "__query_node_data"}

TcWaitTimedOut == tc.ret.fn = "create" /\ tc.ret.wait = "timeout"

TcTerminateCalls == {i \in DOMAIN tc.log : tc.log[i].name = "TerminateInstances"}

\* C15 as stated: a create whose wait for the address failed makes no
\* TerminateInstances call.
C15_NoTerminateAfterWaitFailure ==
    TcWaitTimedOut => TcTerminateCalls = {}

\* C15: a create whose wait for the address failed raises SaltCloudSystemExit
\* after it has run destroy on the name: the destroying event, the lookup by
\* name, and at most one TerminateInstances call, made when the lookup found
\* an instance.
C15_CleanupThenRaise ==
    TcWaitTimedOut =>
        /\ tc.ret.outcome = "raised" /\ tc.ret.exc = "SaltCloudSystemExit"
        /\ \E i \in DOMAIN tc.log :
              /\ tc.log[i].kind = "event" /\ tc.log[i].title = "destroying instance"
              /\ \A p \in TcProbes : p < i
              /\ i < Len(tc.log) /\ tc.log[i + 1].name = "DescribeInstances"
              /\ \A t \in TcTerminateCalls : t > i
              /\ TcTerminateCalls = {} <=> ~tc.log[i + 1].ok
        /\ Cardinality(TcTerminateCalls) <= 1

C15_Witness ==
    /\ TcWaitTimedOut
    /\ \E t \in TcTerminateCalls : tc.log[t].ok

VmWaitLoops == {"destroy_wait_off", "destroy_wait_destroy", "create_wait"}

\* C13: the wait loops of destroy and create end whatever becomes of the
\* task: the turn a loop takes once its task has ended in error leaves the
\* loop, it does not poll again a task that can no longer succeed.
C13_WaitEndsOnFailedTask ==
    [][vmRun.task = "error" /\ vmRun.pc \in VmWaitLoops => vmRun'.pc # vmRun.pc]_vars

\* the arguments of the last config that are not salt's own
PortsInvalid ==
    \E x \in DOMAIN ports.ret.opts :
        x \notin PortOpts \/ ports.ret.opts[x] \notin OnOff

\* C14: a config call that names no option of the port, or gives a value
\* other than on/off, and whose 'make showconfig' ran, raises SaltInvocationError and leaves what is stored
\* as it was: no 'make rmconfig' run, no options file written, with reset
\* or without.
C14_InvalidConfigChangesNothing ==
    ports.ret.fn = "config" /\ PortsInvalid /\ ports.ret.shown # "empty"
        => /\ ports.ret.outcome = "raised"
           /\ ports.ret.exc = "SaltInvocationError"
           /\ ports.stored = ports.ret.before
           /\ \A i \in DOMAIN ports.log :
                 ports.log[i] \notin {"make rmconfig", "write options"}

\* C16: when cib_present has returned result True outside test mode, the
\* cibfile exists and hashes to the hash of the live CIB the call fetched,
\* the checksum file holds exactly that hash, and the temporary file is gone.
C16_PresentLeavesCacheConsistent ==
    cibFiles.ret.fn = "cib_present" /\ cibFiles.ret.result = "True" /\ ~cibFiles.ret.test
        => /\ cibFiles.cibfile # 0
           /\ get_hash(cibFiles.cibfile) = cibFiles.ret.hash_live
           /\ cibFiles.ret.hash_live = get_hash(cibFiles.live)
           /\ cibFiles.cksum = cibFiles.ret.hash_live
           /\ cibFiles.tmp = 0

\* a cib_present that had the cibfile and the checksum to write, and did
C16_Witness ==
    /\ cibFiles.ret.fn = "cib_present" /\ cibFiles.ret.result = "True" /\ ~cibFiles.ret.test
    /\ cibFiles.ret.before.cibfile # cibFiles.cibfile
    /\ cibFiles.ret.before.cibfile # 0
    /\ cibFiles.ret.before.cksum # cibFiles.cksum

\* C17: cib_pushed calls pcs.cib_push exactly when the cibfile exists, its
\* hash is not what the checksum file holds, and test mode is off; and a
\* cib_pushed that comes right after a cib_present that returned True pushes
\* nothing.
C17_PushedIffChanged ==
    /\ [](cibFiles.ret.fn = "cib_pushed" =>
             (cibFiles.ret.pushed <=>
                 /\ cibFiles.ret.before.cibfile # 0
                 /\ cibFiles.ret.before.cksum # get_hash(cibFiles.ret.before.cibfile)
                 /\ ~cibFiles.ret.test))
    /\ [][cibFiles.ret.fn = "cib_present" /\ cibFiles.ret.result = "True"
             /\ cibFiles'.ret.fn = "cib_pushed"
          => ~cibFiles'.ret.pushed]_vars

\* a cib_pushed that pushed a cibfile changed since cib_present wrote its
\* checksum
C17_Witness ==
    /\ cibFiles.ret.fn = "cib_pushed" /\ cibFiles.ret.pushed
    /\ cibFiles.ret.before.cksum \in {get_hash(d) : d \in CibDocs}
    /\ cibFiles.live = cibFiles.cibfile

LambdaUpdates == {"update_function_code", "update_alias", "update_event_source_mapping"}

\* C18: whatever the API does, update_function_code, update_alias and
\* update_event_source_mapping return a dictionary with the key 'updated':
\* True with the description, False (with 'error' after a ClientError) when
\* nothing was updated.
C18_UpdatedKeyAlways ==
    lam.ret.fn \in LambdaUpdates /\ lam.ret.raised = ""
        => /\ "updated" \in lam.ret.keys
           /\ lam.ret.updated \in {"True", "False"}

\* C19: the listing _multi_call hands to _find_function holds every function
\* of the account exactly once, however many pages the API cut it into.
C19_AllPagesReturned ==
    lam.ret.fn = "_find_function" => lam.ret.items = lam.functions

\* C20: create returns True when, and only when, the call created a VPC,
\* and False otherwise: no other value, and never False with a VPC created.
C20_TrueIffCreated ==
    vpc.ret.fn = "create"
        => /\ vpc.ret.value \in {"True", "False"}
           /\ vpc.ret.value = "True" <=> vpc.ret.created

\* C21: auth returns result True whenever every node given is authorized
\* after the call, and result False only when one of them is not; it calls
\* pcs.auth only when a node was not authorized before.
C21_AuthResultTellsAuthorized ==
    cluster.ret.fn = "auth" =>
        /\ cluster.ret.nodes \subseteq cluster.authorized => cluster.ret.result = "True"
        /\ cluster.ret.result = "False"
              => ~(cluster.ret.nodes \subseteq cluster.authorized)
        /\ (\E i \in DOMAIN cluster.log : cluster.log[i] = "pcs.auth")
              => ~(cluster.ret.nodes \subseteq cluster.ret.before)

\* C22: once a driver's destroy has reported success for an instance that
\* existed, the driver lists no instance of that name any more.
C22_DestroyedNotListed ==
    /\ gceRet.fn = "destroy" /\ gceRet.outcome = "returned" => ~gce.node
    /\ vmRet.fn = "destroy" /\ vmRet.outcome = "returned" /\ vmRet.value = "True"
          => \A k \in DOMAIN vms : vms[k].name = vmRet.name => vms[k].power = "gone"
    /\ tc.ret.fn = "destroy" /\ tc.ret.outcome = "returned"
          => TcMatches(tc.ret.name) = {}

\* the opens so far that fell to the pattern
OpensOf(pat) == Cardinality({k \in DOMAIN mockOpen.opens : mockOpen.opens[k] = pat})

FhPrefix ==
    /\ Len(fh.returned) <= Len(fh.D)
    /\ fh.returned = SubSeq(fh.D, 1, Len(fh.returned))
    /\ fh.returned \o joined(fh.read_data) = fh.D

\* a read at the end of the contents returns empty data
FhEmptyAtEnd == fh.ret.at_end => fh.ret.data = <<>>

\* C24: after any sequence of read(), read(n), readline(), readlines() and
\* iteration steps, everything returned so far is a prefix of the file
\* contents, tell() is the length returned so far, and at the end of the
\* contents every read returns empty data.
C24_ReadsArePrefixAndTellCounts ==
    /\ FhPrefix
    /\ fh._loc = Len(fh.returned)
    /\ FhEmptyAtEnd

\* C25: a cib_pushed that comes right after a cib_pushed that pushed the
\* cibfile with success reports the CIB as not changed and pushes nothing.
C25_SecondPushIsNoOp ==
    [][/\ cibFiles.ret.fn = "cib_pushed" /\ cibFiles.ret.pushed
       /\ cibFiles.ret.result = "True"
       /\ cibFiles'.ret.fn = "cib_pushed"
       => ~cibFiles'.ret.pushed /\ cibFiles'.ret.result = "True"]_vars

\* the calls on the boot disk in a log
DiskCalls(log) == {i \in DOMAIN log : log[i].name \in {"ex_get_volume", "destroy_volume"}}

\* C26: gce.destroy tries to delete the boot disk only after destroy_node
\* has returned and only for a profile that sets delete_boot_pd; when
\* destroy_node raises it raises SaltCloudSystemExit with no call on the
\* disk; when the deletion of the disk fails it still returns.
C26_DiskAfterNodeAndSwallowed ==
    [][gceRet'.fn = "destroy" /\ <<gceLog', gceRet'>> # <<gceLog, gceRet>> =>
          /\ \A i \in DiskCalls(gceLog') :
                /\ gce.bootpd
                /\ \E j \in 1..(i - 1) : gceLog'[j] = Mut("destroy_node", TRUE)
          /\ (\E j \in DOMAIN gceLog' : gceLog'[j] = Mut("destroy_node", FALSE))
                => /\ DiskCalls(gceLog') = {}
                   /\ gceRet'.outcome = "raised"
                   /\ gceRet'.exc = "SaltCloudSystemExit"
          /\ (\E i \in DiskCalls(gceLog') : ~gceLog'[i].ok)
                => gceRet'.outcome = "returned" /\ ~gce'.node]_vars

\* a destroy that returned although the deletion of the boot disk failed
C26_Witness ==
    /\ gceRet.fn = "destroy" /\ gceRet.outcome = "returned"
    /\ \E i \in DOMAIN gceLog : gceLog[i] = Mut("destroy_volume", FALSE)

\* C27: a normalizer leaves the vendor object it is given unchanged, its
\* extra mapping included, so a second normalization of the same object
\* returns, and returns what the first did.
C27_NormalizerLeavesObject ==
    [][norm'.ret.fn # "none" /\ norm' # norm =>
          /\ norm'.objs = norm.objs
          /\ (/\ norm.ret.fn = norm'.ret.fn /\ norm.ret.target = norm'.ret.target
              /\ norm.ret.outcome = "returned")
                => norm'.ret.outcome = "returned" /\ norm'.ret.value = norm.ret.value]_vars

\* the calls of the pcs execution module that change the cluster
PcsMutating == {"pcs.auth", "pcs.cluster_setup", "pcs.cluster_node_add",
                "pcs.item_create", "pcs.cib_push"}

\* test mode of the _item_present family: no pcs.item_create, None only for
\* an item that is not there as asked, True only with no changes for one
\* that is
ItemTestMode ==
    pcsRet.test =>
        /\ \A i \in DOMAIN pcsLog : pcsLog[i].name \notin PcsMutating
        /\ pcsRet.result \in {"None", "True"}
        /\ pcsRet.result = "None" => ~pcsRet.reported
        /\ pcsRet.result = "True" => pcsRet.reported /\ ~pcsRet.changes

\* test mode of auth, cluster_setup and cluster_node_present
ClusterTestMode ==
    cluster.ret.test =>
        LET needed == CASE cluster.ret.fn = "auth" ->
                              ~(cluster.ret.nodes \subseteq cluster.ret.before)
                        [] cluster.ret.fn = "cluster_setup" -> cluster.name # "pcscluster"
                        [] OTHER -> ~(cluster.ret.nodes \subseteq cluster.members)
        IN  /\ \A i \in DOMAIN cluster.log : cluster.log[i] \notin PcsMutating
            /\ cluster.authorized = cluster.ret.before
            /\ cluster.ret.result = (IF needed THEN "None" ELSE "True")
            /\ cluster.ret.changes = {}

\* test mode of cib_present and cib_pushed: the cibfile and the checksum
\* file stay as they were and nothing is pushed
CibTestMode ==
    cibFiles.ret.test =>
        LET b == cibFiles.ret.before
            needed == IF cibFiles.ret.fn = "cib_present"
                      THEN \/ ~check_hash(b.cibfile, cibFiles.ret.hash_live)
                           \/ b.cksum # cibFiles.ret.hash_live
                      ELSE cib_push_required(b.cibfile, b.cksum)
        IN  /\ cibFiles.cibfile = b.cibfile /\ cibFiles.cksum = b.cksum
            /\ ~cibFiles.ret.pushed
            /\ cibFiles.ret.result = "None" => needed
            /\ cibFiles.ret.result = "True" => ~needed

\* C28: with test set no pcs state function issues a mutating call or
\* changes the cached CIB file or the checksum file; each returns None when
\* a change would be needed and True with empty changes when none is.
C28_TestModeChangesNothing == ItemTestMode /\ ClusterTestMode /\ CibTestMode

\* C29: outside test mode, started returns result True and non-empty
\* changes when it called glusterfs.start and the volume is started after
\* it, empty changes when it made no such call, and never a key other than
\* name, changes, comment and result.
C29_StartedReportsChange ==
    (gluster.ret.fn = "started" /\ ~gluster.ret.test) =>
        LET issued == \E i \in DOMAIN gluster.ret.log : gluster.ret.log[i] = "glusterfs.start"
            dict == gluster.ret.dict
        IN  /\ (issued /\ gluster.ret.started_after)
                  => dict.result = "True" /\ dict.changes # {}
            /\ ~issued => dict.changes = {}
            /\ DOMAIN dict \subseteq {"name", "changes", "comment", "result"}

DevAdds == {i \in DOMAIN devs.device_specs : devs.device_specs[i].operation = "add"}

\* new disks stay off unit 7 and off each other
NewUnitsApart ==
    \A i \in DevAdds :
        /\ devs.device_specs[i].unitNumber # 7
        /\ \A j \in DevAdds : devs.device_specs[j].unitNumber
                                 = devs.device_specs[i].unitNumber => i = j

\* a disk is edited only to grow
EditsOnlyGrow ==
    \A i \in DOMAIN devs.device_specs :
        devs.device_specs[i].operation = "edit"
            => devs.device_specs[i].capacityInKB > devs.device_specs[i].was

\* C30: every new disk gets a unit number that is not 7, not the unit number
\* of a disk the machine has, and not that of another new disk of the call;
\* an existing disk is edited only to a size strictly larger than its
\* capacity.
C30_NewDiskUnitsAreFree ==
    /\ NewUnitsApart
    /\ \A i \in DevAdds : \A d \in DOMAIN devs.vm :
          devs.device_specs[i].unitNumber # devs.vm[d].unitNumber
    /\ EditsOnlyGrow

====
